---- MODULE Spec2Model ----
(***************************************************************************)
(* Verification model of the geospatial backend (backend/):                *)
(*   - the bounded insertion-ordered caches (_bounded_cache_put),          *)
(*   - the LOD cache (_apply_lod_cached) and the LOD pipeline (apply_lod), *)
(*   - the tiled AOI slice (GeoIndex.slice_layers_tiled),                  *)
(*   - the seeded DuckDB engine and the in-memory engine,                  *)
(*   - the plot builder's highlight overlay (build_map_plot),              *)
(*   - the prompt router (route_prompt and the routes it dispatches to),   *)
(*   - the streamed response of handle_incoming_message.                   *)
(* Each subsystem has its own specification over its own variables; the    *)
(* variables of the other subsystems stay unchanged in it.                 *)
(***************************************************************************)
EXTENDS Integers, Sequences, FiniteSets, TLC

VARIABLES
    cache,      \* a bounded cache: a Python dict as a sequence of [k, v] in insertion order
    thr,        \* per request thread: position inside _bounded_cache_put and its locals
    lastOp,     \* the last completed cache operation: what it was given and what it left
    nOps,       \* number of cache operations started (bounds the run)
    hpc,        \* handle_incoming_message: position of the generator
    events,     \* handle_incoming_message: the events yielded so far
    toEmit,     \* handle_incoming_message: words left in the current emission loop
    routed,     \* handle_incoming_message: route_prompt has returned
    raised,     \* handle_incoming_message: the step that raised, or "none"
    stats,      \* handle_incoming_message: highlight counts in the plot's stats block
    lodCache,   \* _lod_cache: insertion-ordered entries [k, v]
    lodCall,    \* the latest _apply_lod_cached call: arguments, key, result
    lodPrev,    \* the call before it
    nLodCalls,  \* number of _apply_lod_cached calls made (bounds the run)
    tileSliceCache, \* GeoIndex._tile_slice_cache: entries [k, v], k = <<z, x>>
    sliceCache, \* GeoIndex._slice_cache: entries [k, v], k = rounded bbox key
    tiled,      \* the latest slice_layers_tiled call: arguments and result
    envPath,    \* PANGE_DUCKDB_PATH is set (one database file for all scenarios)
    db,         \* DuckDB files: path -> table -> rows
    seeded,     \* the _SeededBase objects (path, scenario) with _initialized set
    duckTiles,  \* _SeededBase tile caches: (path, scenario) -> entries [k, v]
    memTiles,   \* InMemoryEngine: per-scenario index tile cache, entries [k, v]
    served,     \* the bundle the latest request was served
    nReq,       \* number of requests made (bounds the run)
    lodIn,      \* apply_lod: the arguments of the call
    lodOut,     \* apply_lod: its result (layers, clusters)
    lodOut2,    \* apply_lod applied to its own result with the same arguments
    plotStats,  \* build_map_plot on the LOD result: highlight requested / rendered
    agentIn,    \* the prompt router: the arguments of the latest call
    agentOut,   \* the prompt router: the AgentResponse (or ranking) it returned
    pangeEngine,   \* the PANGE_ENGINE environment variable of the process
    defaultEngine, \* the memo of _default_engine_name, NotCached before its first call
    engSel,      \* the latest request's engine selection: hint, dataSize, engine used
    overlayReq, \* a request with highlight overlays: the response, what LOD was given, what it returned
    initThr,    \* per thread in DuckDBEngine.get: position, the _SeededBase it holds, calls made
    baseMemo,   \* the lru_cache entry of _seeded_base for the (path, scenario): a base, or NoBase
    baseObj,    \* the _SeededBase objects built: who holds _init_lock, _initialized
    seedFile,   \* the database file: runs of _init_schema and _seed_all_layers, tables filled
    capCall,    \* query_geoparquet_layer_bbox: the arguments of the latest call and its cap block
    gpMemo,     \* the lru_cache of _geoparquet_bundle_cached: entries [k, v]
    gpReq,      \* the request inside _geoparquet_bundle_cached: futures, out_layers, layer_stats
    gpServed,   \* what the latest finished request was returned
    nGpReq     \* number of GeoParquet bundle requests started (bounds the run)

cacheVars == <<cache, thr, lastOp, nOps>>

streamVars == <<hpc, events, toEmit, routed, raised, stats>>

lodCacheVars == <<lodCache, lodCall, lodPrev, nLodCalls>>

tiledVars == <<tileSliceCache, sliceCache, tiled>>

engineVars == <<envPath, db, seeded, duckTiles, memTiles, served, nReq>>

lodVars == <<lodIn, lodOut, lodOut2, plotStats>>

agentVars == <<agentIn, agentOut>>

selVars == <<pangeEngine, defaultEngine, engSel>>

pinVars == <<overlayReq>>

initVars == <<initThr, baseMemo, baseObj, seedFile>>

capVars == <<capCall>>

gpVars == <<gpMemo, gpReq, gpServed, nGpReq>>

vars == <<cacheVars, streamVars, lodCacheVars, tiledVars, engineVars, lodVars, agentVars, selVars, pinVars, initVars, capVars, gpVars>>

nonCacheVars == <<streamVars, lodCacheVars, tiledVars, engineVars, lodVars, agentVars, selVars, pinVars, initVars, capVars, gpVars>>

nonStreamVars == <<cacheVars, lodCacheVars, tiledVars, engineVars, lodVars, agentVars, selVars, pinVars, initVars, capVars, gpVars>>

nonLodCacheVars == <<cacheVars, streamVars, tiledVars, engineVars, lodVars, agentVars, selVars, pinVars, initVars, capVars, gpVars>>

nonTiledVars == <<cacheVars, streamVars, lodCacheVars, engineVars, lodVars, agentVars, selVars, pinVars, initVars, capVars, gpVars>>

nonEngineVars == <<cacheVars, streamVars, lodCall, lodPrev, nLodCalls, tiledVars, lodVars, agentVars, selVars, pinVars, initVars, capVars, gpVars>>

nonLodVars == <<cacheVars, streamVars, lodCacheVars, tiledVars, engineVars, agentVars, selVars, pinVars, initVars, capVars, gpVars>>

nonAgentVars == <<cacheVars, streamVars, lodCacheVars, tiledVars, engineVars, lodVars, selVars, pinVars, initVars, capVars, gpVars>>

nonSelVars == <<cacheVars, streamVars, lodCacheVars, tiledVars, engineVars, lodVars, agentVars, pinVars, initVars, capVars, gpVars>>

nonPinVars == <<cacheVars, streamVars, lodCacheVars, tiledVars, engineVars, lodVars, agentVars, selVars, initVars, capVars, gpVars>>

nonInitVars == <<cacheVars, streamVars, lodCacheVars, tiledVars, engineVars, lodVars, agentVars, selVars, pinVars, capVars, gpVars>>

nonCapVars == <<cacheVars, streamVars, lodCacheVars, tiledVars, engineVars, lodVars, agentVars, selVars, pinVars, initVars, gpVars>>

nonGpVars == <<cacheVars, streamVars, lodCacheVars, tiledVars, engineVars, lodVars, agentVars, selVars, pinVars, initVars, capVars>>

(***************************************************************************)
(* Bounds of the cache model.                                              *)
(***************************************************************************)
NThreads == 2
MaxKey == 4
MaxItems == 2
MaxOps == 4

Threads == 1..NThreads
Keys == 1..MaxKey
Vals == {0, 1}

(***************************************************************************)
(* A Python dict keeps its keys in insertion order; assigning to a key     *)
(* that is present keeps the key's position.                               *)
(***************************************************************************)
RECURSIVE SeqFilterNotKey(_, _)
SeqFilterNotKey(c, k) ==
    IF c = <<>> THEN <<>>
    ELSE IF Head(c).k = k THEN SeqFilterNotKey(Tail(c), k)
         ELSE <<Head(c)>> \o SeqFilterNotKey(Tail(c), k)

Range(s) == {s[i] : i \in 1..Len(s)}

DictKeys(c) == [i \in 1..Len(c) |-> c[i].k]

DictHas(c, k) == \E i \in 1..Len(c) : c[i].k = k

DictGet(c, k) ==
    IF DictHas(c, k) THEN (CHOOSE e \in {c[i] : i \in 1..Len(c)} : e.k = k).v ELSE -1

\* a plausible slip: assignment to a present key re-inserts it at the end
DictSetMovesToEnd(c, k, v) == SeqFilterNotKey(c, k) \o <<[k |-> k, v |-> v]>>

DictSet(c, k, v) ==
    IF DictHas(c, k)
    THEN [i \in 1..Len(c) |-> IF c[i].k = k THEN [k |-> k, v |-> v] ELSE c[i]]
    ELSE Append(c, [k |-> k, v |-> v])

DictPop(c, k) == SeqFilterNotKey(c, k)

\* a plausible slip: the eviction drops the newest entry instead of the oldest
BoundedCachePutEvictsNewest(c, k, v, maxItems) ==
    LET c1 == DictSet(c, k, v)
    IN  IF Len(c1) > maxItems THEN SubSeq(c1, 1, Len(c1) - 1) ELSE c1

\* _bounded_cache_put run by one caller from start to end
BoundedCachePut(c, k, v, maxItems) ==
    LET c1 == DictSet(c, k, v)
    IN  IF Len(c1) > maxItems
        THEN LET oldest == c1[1].k
             IN  IF oldest # k THEN DictPop(c1, oldest) ELSE c1
        ELSE c1

(***************************************************************************)
(* _bounded_cache_put step by step, as request threads interleave in it.   *)
(* Each step is one dict operation, atomic under the interpreter lock.     *)
(***************************************************************************)
IdleThread == [pc |-> "idle", key |-> 0, seen |-> 0, oldest |-> 0, pre |-> <<>>]

InitStream ==
    /\ hpc = "start"
    /\ events = <<>>
    /\ toEmit = 0
    /\ routed = FALSE
    /\ raised = "none"
    /\ stats = [req |-> 0, rend |-> 0]

InitCacheVars ==
    /\ cache = <<>>
    /\ thr = [t \in Threads |-> IdleThread]
    /\ lastOp = [op |-> "none", key |-> 0, pre |-> <<>>, post |-> <<>>]
    /\ nOps = 0

NoCall == [made |-> FALSE]

InitLodCache ==
    /\ lodCache = <<>>
    /\ lodCall = NoCall
    /\ lodPrev = NoCall
    /\ nLodCalls = 0

InitTiled ==
    /\ tileSliceCache = <<>>
    /\ sliceCache = <<>>
    /\ tiled = NoCall

Scenarios == {"prague", "brno"}
Kinds == {"points", "lines", "polygons"}
DbPaths == {"shared"} \cup Scenarios

\* no file seeded, no _SeededBase built, no tile cached, no request served
InitEngineState ==
    /\ db = [p \in DbPaths |-> [k \in Kinds |-> {}]]
    /\ seeded = {}
    /\ duckTiles = [b \in DbPaths \X Scenarios |-> <<>>]
    /\ memTiles = [sc \in Scenarios |-> <<>>]
    /\ served = NoCall
    /\ nReq = 0

InitEngine == envPath = FALSE /\ InitEngineState

InitLod ==
    /\ lodIn = NoCall
    /\ lodOut = NoCall
    /\ lodOut2 = NoCall
    /\ plotStats = NoCall

InitAgent ==
    /\ agentIn = NoCall
    /\ agentOut = NoCall

NotCached == "<not cached>"
None == "<None>"

\* no request has selected an engine yet
InitSelState ==
    /\ defaultEngine = NotCached
    /\ engSel = NoCall

InitSel == pangeEngine = None /\ InitSelState

InitPin == overlayReq = NoCall

InitCap == capCall = NoCall

GpIdle == [pc |-> "idle"]

\* nothing memoized, no request running
InitGp ==
    /\ gpMemo = <<>>
    /\ gpReq = GpIdle
    /\ gpServed = NoCall
    /\ nGpReq = 0

NInitThreads == 2
InitThreads == 1..NInitThreads
NoBase == 0

\* no _SeededBase built, the database file without tables
InitSeeding ==
    /\ initThr = [t \in InitThreads |-> [pc |-> "idle", base |-> NoBase, gets |-> 0, table |-> 0]]
    /\ baseMemo = NoBase
    /\ baseObj = [b \in InitThreads |-> [built |-> FALSE, lock |-> 0, initialized |-> FALSE]]
    /\ seedFile = [schemaRuns |-> 0, seedRuns |-> 0, filled |-> {}]

Init ==
    /\ InitCacheVars /\ InitStream /\ InitLodCache /\ InitTiled /\ InitEngine /\ InitLod
    /\ InitAgent /\ InitSel /\ InitPin /\ InitSeeding /\ InitCap /\ InitGp

\* the process may be started with or without PANGE_DUCKDB_PATH
InitAnyEnv ==
    /\ InitCacheVars /\ InitStream /\ InitLodCache /\ InitTiled /\ InitLod /\ InitAgent
    /\ InitSel /\ InitPin /\ InitSeeding /\ InitCap /\ InitGp
    /\ envPath \in BOOLEAN
    /\ InitEngineState

\* cache[key] = value
PutInsert(t, k, v) ==
    /\ thr[t].pc = "idle"
    /\ nOps < MaxOps
    /\ cache' = DictSet(cache, k, v)
    /\ thr' = [thr EXCEPT ![t] = [pc |-> "check", key |-> k, seen |-> 0,
                                  oldest |-> 0, pre |-> DictKeys(cache)]]
    /\ nOps' = nOps + 1
    /\ UNCHANGED lastOp

Finish(t) ==
    /\ thr' = [thr EXCEPT ![t] = IdleThread]
    /\ lastOp' = [op |-> "put", key |-> thr[t].key, pre |-> thr[t].pre, post |-> DictKeys(cache')]

\* if len(cache) > max_items
PutCheckLen(t) ==
    /\ thr[t].pc = "check"
    /\ IF Len(cache) > MaxItems
       THEN /\ thr' = [thr EXCEPT ![t].pc = "iter"]
            /\ UNCHANGED <<cache, lastOp>>
       ELSE /\ UNCHANGED cache
            /\ Finish(t)
    /\ UNCHANGED nOps

\* iter(cache.keys()): the iterator remembers the dict's size
PutIter(t) ==
    /\ thr[t].pc = "iter"
    /\ thr' = [thr EXCEPT ![t].pc = "next", ![t].seen = Len(cache)]
    /\ UNCHANGED <<cache, lastOp, nOps>>

\* oldest = next(...): raises when the dict changed size since iter();
\* the exception is swallowed and nothing is evicted
PutNext(t) ==
    /\ thr[t].pc = "next"
    /\ IF Len(cache) # thr[t].seen \/ cache = <<>>
       THEN /\ UNCHANGED cache
            /\ Finish(t)
       ELSE /\ thr' = [thr EXCEPT ![t].pc = "pop", ![t].oldest = cache[1].k]
            /\ UNCHANGED <<cache, lastOp>>
    /\ UNCHANGED nOps

\* if oldest != key: cache.pop(oldest, None)
PutPop(t) ==
    /\ thr[t].pc = "pop"
    /\ cache' = IF thr[t].oldest # thr[t].key THEN DictPop(cache, thr[t].oldest) ELSE cache
    /\ Finish(t)
    /\ UNCHANGED nOps

\* cache.get(key): a lookup, hit or miss
CacheGet(t, k) ==
    /\ thr[t].pc = "idle"
    /\ nOps < MaxOps
    /\ nOps' = nOps + 1
    /\ lastOp' = [op |-> IF DictHas(cache, k) THEN "hit" ELSE "miss", key |-> k,
                  pre |-> DictKeys(cache), post |-> DictKeys(cache)]
    /\ UNCHANGED <<cache, thr>>

ThreadStep(t) ==
    \/ (\E k \in Keys, v \in Vals : PutInsert(t, k, v)) /\ UNCHANGED nonCacheVars
    \/ PutCheckLen(t) /\ UNCHANGED nonCacheVars
    \/ PutIter(t) /\ UNCHANGED nonCacheVars
    \/ PutNext(t) /\ UNCHANGED nonCacheVars
    \/ PutPop(t) /\ UNCHANGED nonCacheVars
    \/ (\E k \in Keys : CacheGet(t, k)) /\ UNCHANGED nonCacheVars

\* several request threads share the cache
NextCacheConc == \E t \in Threads : ThreadStep(t)

SpecCacheConc == Init /\ [][NextCacheConc]_vars

\* a single caller
NextCacheSeq == ThreadStep(1)

SpecCacheSeq == Init /\ [][NextCacheSeq]_vars

(***************************************************************************)
(* handle_incoming_message: one streamed response.  Every yield of the     *)
(* generator is a step.  A pipeline step (scenario resolution, engine get, *)
(* routing, LOD, plot build, serialisation) either returns or raises; an   *)
(* exception leaves the try block for the handler at its end.              *)
(***************************************************************************)
MaxMsgWords == 3
MaxErrWords == 2
MinErrWords == 3
NoteWords == 8
MaxHighlight == 2

Ev(type, src) == [type |-> type, src |-> src]

\* except Exception as e: msg = f"Backend error: {type(e).__name__}: {e}"
Raise(step) ==
    /\ \E n \in MinErrWords..(MinErrWords + MaxErrWords) : toEmit' = n
    /\ hpc' = "error"
    /\ raised' = step
    /\ UNCHANGED <<events, routed, stats>>

Proceed(next) ==
    /\ hpc' = next
    /\ UNCHANGED <<events, toEmit, routed, raised, stats>>

\* scenario = get_scenario(scenario_id).config; ctx = MapContext(...)
ResolveScenario ==
    /\ hpc = "start"
    /\ Proceed("engine") \/ Raise("scenario")

\* result = _engine(engine_name).get(ctx)
EngineGet ==
    /\ hpc = "engine"
    /\ Proceed("route") \/ Raise("engine")

\* response = route_prompt(...)
RoutePrompt ==
    /\ hpc = "route"
    /\ \/ /\ \E n \in 1..MaxMsgWords : toEmit' = n
          /\ routed' = TRUE
          /\ hpc' = "words"
          /\ UNCHANGED <<events, raised, stats>>
       \/ Raise("route")

\* for word in response.message...: yield format_event(EventType.append, word)
EmitMessageWord ==
    /\ hpc = "words"
    /\ toEmit > 0
    /\ events' = Append(events, Ev("append", "msg"))
    /\ toEmit' = toEmit - 1
    /\ UNCHANGED <<hpc, routed, raised, stats>>

\* (lod_layers, beer_clusters), cache_stats = _apply_lod_cached(...)
ApplyLodStep ==
    /\ hpc = "words"
    /\ toEmit = 0
    /\ Proceed("plot") \/ Raise("lod")

\* plot = build_map_plot(...): the stats block carries the highlight counts
BuildPlotStep ==
    /\ hpc = "plot"
    /\ \/ /\ \E q \in 0..MaxHighlight, r \in 0..MaxHighlight : stats' = [req |-> q, rend |-> r]
          /\ hpc' = "json"
          /\ UNCHANGED <<events, toEmit, routed, raised>>
       \/ Raise("plot")

\* a plausible slip: the note is written also when every requested feature was rendered
SerializeStepNotesWhenEqual ==
    /\ hpc = "json"
    /\ \/ /\ toEmit' = IF stats.req > 0 /\ stats.rend <= stats.req THEN NoteWords ELSE 0
          /\ hpc' = "note"
          /\ UNCHANGED <<events, routed, raised, stats>>
       \/ Raise("json")

\* plot_json = json.dumps(plot, ...), with the fallback json.dumps(plot);
\* then the note loop starts when highlights were clipped
SerializeStep ==
    /\ hpc = "json"
    /\ \/ /\ toEmit' = IF stats.req > 0 /\ stats.rend < stats.req THEN NoteWords ELSE 0
          /\ hpc' = "note"
          /\ UNCHANGED <<events, routed, raised, stats>>
       \/ Raise("json")

\* note = f"(Note: matched {req}, rendered {rend} due to LOD/budget/caps.)", note.split():
\* the words of the note, the two that carry a count with the count
Plain(text) == [text |-> text, n |-> -1]

NoteText(req, rend) ==
    << Plain("(Note:"), Plain("matched"), [text |-> "{req},", n |-> req], Plain("rendered"),
       [text |-> "{rend}", n |-> rend], Plain("due"), Plain("to"), Plain("LOD/budget/caps.)") >>

\* for word in note.split(): yield format_event(EventType.append, word)
EmitNoteWord ==
    /\ hpc = "note"
    /\ toEmit > 0
    /\ events' = Append(events, [type |-> "append", src |-> "note",
                                 word |-> NoteText(stats.req, stats.rend)[NoteWords - toEmit + 1]])
    /\ toEmit' = toEmit - 1
    /\ UNCHANGED <<hpc, routed, raised, stats>>

\* a plausible slip: the payload is never sent
EmitPlotDataSkipped ==
    /\ hpc = "note"
    /\ toEmit = 0
    /\ hpc' = "commit"
    /\ UNCHANGED <<events, toEmit, routed, raised, stats>>

\* yield format_event(EventType.plot_data, plot_json)
EmitPlotData ==
    /\ hpc = "note"
    /\ toEmit = 0
    /\ events' = Append(events, Ev("plot_data", "plot"))
    /\ hpc' = "commit"
    /\ UNCHANGED <<toEmit, routed, raised, stats>>

\* yield format_event(EventType.commit, ".")
EmitCommit ==
    /\ hpc = "commit"
    /\ events' = Append(events, Ev("commit", "ok"))
    /\ hpc' = "done"
    /\ UNCHANGED <<toEmit, routed, raised, stats>>

\* for word in msg.split(): yield format_event(EventType.append, word)
EmitErrorWord ==
    /\ hpc = "error"
    /\ toEmit > 0
    /\ events' = Append(events, Ev("append", "err"))
    /\ toEmit' = toEmit - 1
    /\ UNCHANGED <<hpc, routed, raised, stats>>

\* a plausible slip: the handler ends the stream without a commit
EmitErrorCommitMissing ==
    /\ hpc = "error"
    /\ toEmit = 0
    /\ hpc' = "done"
    /\ UNCHANGED <<events, toEmit, routed, raised, stats>>

\* the handler's yield format_event(EventType.commit, ".")
EmitErrorCommit ==
    /\ hpc = "error"
    /\ toEmit = 0
    /\ events' = Append(events, Ev("commit", "handler"))
    /\ hpc' = "done"
    /\ UNCHANGED <<toEmit, routed, raised, stats>>

StreamStep ==
    \/ ResolveScenario
    \/ EngineGet
    \/ RoutePrompt
    \/ EmitMessageWord
    \/ ApplyLodStep
    \/ BuildPlotStep
    \/ SerializeStep
    \/ EmitNoteWord
    \/ EmitPlotData
    \/ EmitCommit
    \/ EmitErrorWord
    \/ EmitErrorCommit

NextStream ==
    \/ ResolveScenario /\ UNCHANGED nonStreamVars
    \/ EngineGet /\ UNCHANGED nonStreamVars
    \/ RoutePrompt /\ UNCHANGED nonStreamVars
    \/ EmitMessageWord /\ UNCHANGED nonStreamVars
    \/ ApplyLodStep /\ UNCHANGED nonStreamVars
    \/ BuildPlotStep /\ UNCHANGED nonStreamVars
    \/ SerializeStep /\ UNCHANGED nonStreamVars
    \/ EmitNoteWord /\ UNCHANGED nonStreamVars
    \/ EmitPlotData /\ UNCHANGED nonStreamVars
    \/ EmitCommit /\ UNCHANGED nonStreamVars
    \/ EmitErrorWord /\ UNCHANGED nonStreamVars
    \/ EmitErrorCommit /\ UNCHANGED nonStreamVars

SpecStream == Init /\ [][NextStream]_vars

RECURSIVE CountType(_, _)
CountType(es, type) ==
    IF es = <<>> THEN 0
    ELSE (IF Head(es).type = type THEN 1 ELSE 0) + CountType(Tail(es), type)

RECURSIVE CountSrc(_, _)
CountSrc(es, src) ==
    IF es = <<>> THEN 0
    ELSE (IF Head(es).src = src THEN 1 ELSE 0) + CountSrc(Tail(es), src)

IndexOfType(es, type) ==
    IF \E i \in 1..Len(es) : es[i].type = type
    THEN CHOOSE i \in 1..Len(es) : es[i].type = type
    ELSE 0

\* append* plot_data append* commit
MatchesSuccessShape(es) ==
    /\ CountType(es, "plot_data") = 1
    /\ CountType(es, "commit") = 1
    /\ Len(es) >= 2
    /\ es[Len(es)].type = "commit"
    /\ \A i \in 1..Len(es) : es[i].type \in {"append", "plot_data", "commit"}

(***************************************************************************)
(* C1 (as stated): for every request, also when a pipeline step raises,    *)
(* the finished stream matches append* plot_data append* commit with       *)
(* exactly one plot_data and one commit, the commit last; plot_data is not *)
(* emitted before route_prompt returned, nor commit before plot_data.      *)
(***************************************************************************)
C1_AsStated ==
    /\ hpc = "done" => MatchesSuccessShape(events)
    /\ CountType(events, "plot_data") > 0 => routed
    /\ CountType(events, "commit") > 0 => CountType(events, "plot_data") > 0

(***************************************************************************)
(* C1 (amended): when no pipeline step raises, the finished stream matches *)
(* append* plot_data append* commit (one plot_data, one commit, the commit *)
(* last, plot_data after route_prompt returned); when a step raises the    *)
(* finished stream is append* commit with no plot_data.  In both cases     *)
(* there is at most one plot_data and one commit, and nothing follows the  *)
(* commit.                                                                 *)
(***************************************************************************)
C1_StreamShape ==
    /\ CountType(events, "plot_data") <= 1
    /\ CountType(events, "commit") <= 1
    /\ CountType(events, "plot_data") > 0 => routed /\ raised = "none"
    /\ CountType(events, "commit") > 0 => events[Len(events)].type = "commit" /\ hpc = "done"
    /\ (CountType(events, "commit") > 0 /\ raised = "none") =>
            /\ IndexOfType(events, "plot_data") > 0
            /\ IndexOfType(events, "plot_data") < IndexOfType(events, "commit")
    /\ (hpc = "done" /\ raised = "none") => MatchesSuccessShape(events)
    /\ (hpc = "done" /\ raised # "none") =>
            /\ CountType(events, "plot_data") = 0
            /\ CountType(events, "commit") = 1
            /\ \A i \in 1..(Len(events) - 1) : events[i].type = "append"

\* a request that ran to its end without an exception, with a clipped-highlight note
C1_Witness ==
    /\ hpc = "done"
    /\ raised = "none"
    /\ CountSrc(events, "msg") = MaxMsgWords
    /\ CountSrc(events, "note") = NoteWords

(***************************************************************************)
(* C2: if any step raises, the stream ends with the words of the error     *)
(* message as append events followed by exactly one commit, the last       *)
(* event, and the generator terminates; the router's words emitted before  *)
(* the failure stay in front.                                              *)
(***************************************************************************)
C2_ErrorStream ==
    /\ hpc # "done" => ENABLED StreamStep
    /\ (hpc = "done" /\ raised # "none") =>
          LET nMsg == CountSrc(events, "msg")
              nErr == CountSrc(events, "err")
          IN  /\ Len(events) = nMsg + nErr + 1
              /\ nErr >= MinErrWords
              /\ \A i \in 1..nMsg : events[i] = Ev("append", "msg")
              /\ \A i \in (nMsg + 1)..(nMsg + nErr) : events[i] = Ev("append", "err")
              /\ events[Len(events)] = Ev("commit", "handler")
              /\ CountType(events, "commit") = 1
              /\ (raised \in {"lod", "plot", "json"}) = (nMsg > 0)

\* the LOD step raised after the router's words had been streamed
C2_Witness ==
    /\ hpc = "done"
    /\ raised = "lod"
    /\ CountSrc(events, "msg") = MaxMsgWords
    /\ CountSrc(events, "err") = MinErrWords + MaxErrWords

(***************************************************************************)
(* _apply_lod_cached: the LOD result cache in front of apply_lod.  View    *)
(* zoom is a float; the model counts it in eighths of a zoom level.        *)
(***************************************************************************)
ZoomUnit == 8
LodCacheMax == 2
MaxLodCalls == 4

Engines == {"in_memory", "duckdb"}
LodZooms == {76, 77}
Highlights == {<<"", <<>>>>, <<"pubs", <<"p1">>>>}

\* Python round(): to nearest, ties to the even integer (num, den >= 1)
RoundHalfEven(num, den) ==
    LET q == num \div den
        r == num % den
    IN  IF 2 * r < den THEN q
        ELSE IF 2 * r > den THEN q + 1
        ELSE IF q % 2 = 0 THEN q ELSE q + 1

Min(a, b) == IF a < b THEN a ELSE b
Max(a, b) == IF a > b THEN a ELSE b

\* tile_zoom_for_view_zoom: max(3, min(13, int(round(view_zoom))))
TileZoomForViewZoom(zoom) == Max(3, Min(13, RoundHalfEven(zoom, ZoomUnit)))

\* zoom_bucket = int(round(float(view_zoom) * 2.0))
ZoomBucket(zoom) == RoundHalfEven(2 * zoom, ZoomUnit)

\* the cache key; cluster layer id, tiles and aoi_key are functions of the
\* scenario, the tile zoom and the AOI
LodKey(a) ==
    <<a.scen, a.engine, TileZoomForViewZoom(a.zoom), ZoomBucket(a.zoom), a.aoi, a.hl>>

\* the value apply_lod computes from its arguments; the layers are the
\* bundle the engine served for the scenario and AOI
LodValue(a) == [layers |-> <<a.scen, a.engine, a.aoi>>, zoom |-> a.zoom, hl |-> a.hl]

LodArgs ==
    [scen : Scenarios, engine : Engines, zoom : LodZooms, aoi : {"aoi"},
     hl : Highlights]

EntryOf(c, k) == CHOOSE e \in Range(c) : e.k = k

ApplyLodCached(a) ==
    /\ nLodCalls < MaxLodCalls
    /\ nLodCalls' = nLodCalls + 1
    /\ lodPrev' = lodCall
    /\ LET key == LodKey(a)
       IN  IF DictHas(lodCache, key)
           THEN /\ lodCache' = lodCache
                /\ lodCall' = [made |-> TRUE, args |-> a, key |-> key, absent |-> FALSE,
                               sizeBefore |-> Len(lodCache),
                               value |-> EntryOf(lodCache, key).v,
                               computed |-> FALSE, cacheHit |-> TRUE]
           ELSE /\ lodCache' = BoundedCachePut(lodCache, key, LodValue(a), LodCacheMax)
                /\ lodCall' = [made |-> TRUE, args |-> a, key |-> key, absent |-> TRUE,
                               sizeBefore |-> Len(lodCache),
                               value |-> LodValue(a),
                               computed |-> TRUE, cacheHit |-> FALSE]

NextLodCache == \E a \in LodArgs : ApplyLodCached(a) /\ UNCHANGED nonLodCacheVars

SpecLodCache == Init /\ [][NextLodCache]_vars

(***************************************************************************)
(* C5: when _apply_lod_cached is called twice in succession with the same  *)
(* scenario, engine, view zoom, AOI and highlight, the second call returns *)
(* the value of the first, does not run apply_lod and reports cacheHit;    *)
(* a call whose key is absent from the cache reports no cacheHit.          *)
(***************************************************************************)
C5_SecondCallHits ==
    /\ (lodCall.made /\ lodPrev.made /\ lodCall.args = lodPrev.args) =>
            /\ lodCall.value = lodPrev.value
            /\ ~lodCall.computed
            /\ lodCall.cacheHit
    /\ (lodCall.made /\ lodCall.absent) => ~lodCall.cacheHit /\ lodCall.computed

\* a repeated call right after a miss that had to evict from a full cache
C5_Witness ==
    /\ lodPrev.made
    /\ lodPrev.absent
    /\ lodPrev.sizeBefore = LodCacheMax
    /\ lodCall.args = lodPrev.args
    /\ Len(lodCache) = LodCacheMax

(***************************************************************************)
(* GeoIndex.slice_layers_tiled over a one-dimensional world of WorldCells  *)
(* cells: at tile zoom z the world is cut into 2^z tiles; a feature covers *)
(* the cells lo..hi; an AOI is an interval of cells.  Feature ids are      *)
(* numbers whose order stands for the order of the id strings.             *)
(***************************************************************************)
TileCacheMax == 2
SliceCacheMax == 1

RECURSIVE Pow2(_)
Pow2(n) == IF n = 0 THEN 1 ELSE 2 * Pow2(n - 1)

TileZooms == {1, 2}
WorldCells == Pow2(CHOOSE z \in TileZooms : \A y \in TileZooms : y <= z)

\* the layers of the index, in bundle order, and their features in index order
IndexLayers == <<"roads", "pubs">>

IndexFeats ==
    [l \in Range(IndexLayers) |->
        IF l = "roads"
        THEN << [layer |-> "roads", id |-> 3, lo |-> 2, hi |-> 3],
                [layer |-> "roads", id |-> 1, lo |-> 1, hi |-> 1],
                [layer |-> "roads", id |-> 2, lo |-> 1, hi |-> WorldCells] >>
        ELSE << [layer |-> "pubs", id |-> 2, lo |-> WorldCells, hi |-> WorldCells],
                [layer |-> "pubs", id |-> 1, lo |-> 2, hi |-> 2] >>]

\* BBox(...).normalized(): lo <= hi
Aois == {a \in [lo : 1..WorldCells, hi : 1..WorldCells] : a.lo <= a.hi}

CellsPerTile(z) == WorldCells \div Pow2(z)

\* lonlat_to_tile
LonLatToTile(z, cell) == ((cell - 1) \div CellsPerTile(z)) + 1

\* tile_bbox_4326
TileBBox(z, x) == [lo |-> (x - 1) * CellsPerTile(z) + 1, hi |-> x * CellsPerTile(z)]

\* tiles_for_bbox, then sorted by (x, y)
TilesForBBox(z, aoi) ==
    LET x0 == LonLatToTile(z, aoi.lo)
        x1 == LonLatToTile(z, aoi.hi)
    IN  [i \in 1..(Max(x0, x1) - Min(x0, x1) + 1) |-> <<z, Min(x0, x1) + i - 1>>]

Intersects(f, b) == f.hi >= b.lo /\ f.lo <= b.hi

RECURSIVE SelectSeq2(_, _)
SelectSeq2(fs, b) ==
    IF fs = <<>> THEN <<>>
    ELSE (IF Intersects(Head(fs), b) THEN <<Head(fs)>> ELSE <<>>) \o SelectSeq2(Tail(fs), b)

\* tree.query(bbox) per layer, features in index order
QueryIndex(b) == [l \in Range(IndexLayers) |-> SelectSeq2(IndexFeats[l], b)]

\* slice_layers: through _slice_cache (bound 64, scaled down)
SliceLayers(sc, b) ==
    LET key == <<b.lo, b.hi>>
    IN  IF DictHas(sc, key)
        THEN [out |-> EntryOf(sc, key).v, sc |-> sc]
        ELSE [out |-> QueryIndex(b),
              sc |-> BoundedCachePut(sc, key, QueryIndex(b), SliceCacheMax)]

\* bucket.setdefault(str(fid), f)
SetDefault(bucket, f) ==
    IF DictHas(bucket, f.id) THEN bucket ELSE Append(bucket, [k |-> f.id, v |-> f])

RECURSIVE MergeFeatures(_, _)
MergeFeatures(bucket, fs) ==
    IF fs = <<>> THEN bucket
    ELSE MergeFeatures(SetDefault(bucket, Head(fs)), Tail(fs))

\* a plausible slip: the bucket is replaced by the tile's features
MergeBundleReplaces(by, bundle) == [l \in DOMAIN by |-> MergeFeatures(<<>>, bundle[l])]

\* for layer in cached.layers: ... bucket.setdefault(...)
MergeBundle(by, bundle) == [l \in DOMAIN by |-> MergeFeatures(by[l], bundle[l])]

\* the loop over the covering tiles
RECURSIVE TileLoop(_, _, _, _)
TileLoop(tiles, tc, sc, by) ==
    IF tiles = <<>> THEN [tc |-> tc, sc |-> sc, by |-> by]
    ELSE LET key == Head(tiles)
         IN  IF DictHas(tc, key)
             THEN TileLoop(Tail(tiles), tc, sc, MergeBundle(by, EntryOf(tc, key).v))
             ELSE LET r == SliceLayers(sc, TileBBox(key[1], key[2]))
                  IN  TileLoop(Tail(tiles),
                               BoundedCachePut(tc, key, r.out, TileCacheMax),
                               r.sc,
                               MergeBundle(by, r.out))

\* [feats[k] for k in sorted(feats.keys())]
RECURSIVE SortedValues(_)
SortedValues(bucket) ==
    IF bucket = <<>> THEN <<>>
    ELSE LET m == CHOOSE e \in Range(bucket) : \A o \in Range(bucket) : e.k <= o.k
         IN  <<m.v>> \o SortedValues(SeqFilterNotKey(bucket, m.k))

SliceLayersTiled(aoi, z) ==
    LET r == TileLoop(TilesForBBox(z, aoi), tileSliceCache, sliceCache,
                      [l \in Range(IndexLayers) |-> <<>>])
    IN  /\ tileSliceCache' = r.tc
        /\ sliceCache' = r.sc
        /\ tiled' = [made |-> TRUE, aoi |-> aoi, z |-> z,
                     cachedBefore |-> {k \in Range(TilesForBBox(z, aoi)) : DictHas(tileSliceCache, k)},
                     out |-> [l \in Range(IndexLayers) |-> SortedValues(r.by[l])]]

NextTiled == \E aoi \in Aois, z \in TileZooms : SliceLayersTiled(aoi, z) /\ UNCHANGED nonTiledVars

SpecTiled == Init /\ [][NextTiled]_vars

\* the features of a layer that intersect some covering tile
CoveringUnion(l, aoi, z) ==
    {f \in Range(IndexFeats[l]) :
        \E t \in Range(TilesForBBox(z, aoi)) : Intersects(f, TileBBox(t[1], t[2]))}

(***************************************************************************)
(* C7: whatever the per-tile cache held before, the bundle returned by     *)
(* slice_layers_tiled holds, per layer, exactly the features that occur in *)
(* the slice of some covering tile, each feature id once.                  *)
(***************************************************************************)
C7_TiledIsUnionOfTileSlices ==
    tiled.made =>
        \A l \in Range(IndexLayers) :
            /\ Range(tiled.out[l]) = CoveringUnion(l, tiled.aoi, tiled.z)
            /\ \A i, j \in 1..Len(tiled.out[l]) :
                    tiled.out[l][i].id = tiled.out[l][j].id => i = j

\* an AOI over several tiles, one served from the tile cache and one not,
\* with a feature that lies on more than one of them
C7_Witness ==
    /\ tiled.made
    /\ tiled.cachedBefore # {}
    /\ tiled.cachedBefore # Range(TilesForBBox(tiled.z, tiled.aoi))
    /\ \E l \in Range(IndexLayers) : \E f \in Range(tiled.out[l]) :
            Cardinality({t \in Range(TilesForBBox(tiled.z, tiled.aoi)) :
                            Intersects(f, TileBBox(t[1], t[2]))}) > 1

(***************************************************************************)
(* The two layer engines behind a request.  Two seeded scenarios that both *)
(* have a layer "pubs"; every feature carries the scenario whose source it *)
(* was loaded from (origin) and, once served, the engine that produced it  *)
(* (via).  Requests are made at one view zoom, on tile grid level          *)
(* EngineTileZoom.                                                         *)
(***************************************************************************)
MaxRequests == 4
DuckTileCacheMax == 2
EngineTileZoom == 1
EngineViewZoom == 10 * ZoomUnit

\* scenario.layers
ScenarioLayers ==
    [sc \in Scenarios |->
        IF sc = "prague"
        THEN << [id |-> "pubs", kind |-> "points"], [id |-> "roads", kind |-> "lines"] >>
        ELSE << [id |-> "pubs", kind |-> "points"], [id |-> "parks", kind |-> "polygons"] >>]

LayerIds(sc) == {ScenarioLayers[sc][i].id : i \in 1..Len(ScenarioLayers[sc])}

KindOf(sc, l) == (CHOOSE c \in Range(ScenarioLayers[sc]) : c.id = l).kind

\* load_scenario_layers(scenario_id)
SourceFeats ==
    [sc \in Scenarios |->
        IF sc = "prague"
        THEN { [layer |-> "pubs", kind |-> "points", id |-> 1, lo |-> 1, hi |-> 1, origin |-> "prague"],
               [layer |-> "pubs", kind |-> "points", id |-> 2, lo |-> 3, hi |-> 3, origin |-> "prague"],
               [layer |-> "roads", kind |-> "lines", id |-> 1, lo |-> 2, hi |-> 3, origin |-> "prague"] }
        ELSE { [layer |-> "pubs", kind |-> "points", id |-> 1, lo |-> 2, hi |-> 2, origin |-> "brno"],
               [layer |-> "parks", kind |-> "polygons", id |-> 1, lo |-> 1, hi |-> WorldCells, origin |-> "brno"] }]

EngineAois == {[lo |-> 1, hi |-> 2], [lo |-> 1, hi |-> WorldCells]}

Via(f, e) ==
    [layer |-> f.layer, kind |-> f.kind, id |-> f.id, lo |-> f.lo, hi |-> f.hi,
     origin |-> f.origin, via |-> e]

RECURSIVE SortSetById(_)
SortSetById(S) ==
    IF S = {} THEN <<>>
    ELSE LET m == CHOOSE f \in S : \A g \in S : f.id <= g.id
         IN  <<m>> \o SortSetById(S \ {m})

\* _duckdb_path_for_scenario
DuckdbPathForScenario(sc) == IF envPath THEN "shared" ELSE sc

\* _seed_all_layers: each table is filled only when the whole table is empty
SeedAllLayers(tables, sc) ==
    [k \in Kinds |->
        IF tables[k] = {} THEN {f \in SourceFeats[sc] : f.kind = k} ELSE tables[k]]

\* ensure_initialized
EnsureInitialized(files, path, sc) ==
    IF <<path, sc>> \in seeded THEN files
    ELSE [files EXCEPT ![path] = SeedAllLayers(files[path], sc)]

\* _query_seeded_layers_bbox: the rows of each table in the bbox, grouped by
\* layer_id, handed to the scenario's layers by id and kind
QuerySeededLayersBBox(tables, b, sc) ==
    [l \in LayerIds(sc) |->
        SortSetById({Via(r, "duckdb") :
                        r \in {r \in tables[KindOf(sc, l)] : r.layer = l /\ Intersects(r, b)}})]

\* the in-memory index of the scenario, sliced to the bbox
QueryScenarioIndex(b, sc) ==
    [l \in LayerIds(sc) |->
        SortSetById({Via(f, "in_memory") :
                        f \in {f \in SourceFeats[sc] : f.layer = l /\ Intersects(f, b)}})]

\* the tile loop of slice_layers_tiled; fresh[k] is what a miss computes
RECURSIVE CachedTileLoop(_, _, _, _)
CachedTileLoop(tiles, tc, fresh, by) ==
    IF tiles = <<>> THEN [tc |-> tc, by |-> by]
    ELSE LET key == Head(tiles)
         IN  IF DictHas(tc, key)
             THEN CachedTileLoop(Tail(tiles), tc, fresh, MergeBundle(by, EntryOf(tc, key).v))
             ELSE CachedTileLoop(Tail(tiles),
                                 BoundedCachePut(tc, key, fresh[key], DuckTileCacheMax),
                                 fresh,
                                 MergeBundle(by, fresh[key]))

BundleFeatures(bundle) == UNION {Range(bundle[l]) : l \in DOMAIN bundle}

\* _apply_lod_cached on the served layers.  apply_lod only drops or
\* simplifies features of its input: what it keeps has the input's provenance.
ServeThroughLodCache(sc, e, aoi, bundle) ==
    LET key == LodKey([scen |-> sc, engine |-> e, zoom |-> EngineViewZoom,
                       aoi |-> aoi, hl |-> <<"", <<>>>>])
    IN  /\ lodCache' = IF DictHas(lodCache, key) THEN lodCache
                       ELSE BoundedCachePut(lodCache, key, bundle, LodCacheMax)
        /\ served' = [made |-> TRUE, scen |-> sc, engine |-> e, aoi |-> aoi,
                      cacheHit |-> DictHas(lodCache, key),
                      feats |-> BundleFeatures(IF DictHas(lodCache, key)
                                               THEN EntryOf(lodCache, key).v
                                               ELSE bundle)]

\* DuckDBEngine.get, then the LOD cache
RequestDuckDB(sc, aoi) ==
    LET path == DuckdbPathForScenario(sc)
        files == EnsureInitialized(db, path, sc)
        tiles == TilesForBBox(EngineTileZoom, aoi)
        fresh == [k \in Range(tiles) |->
                    QuerySeededLayersBBox(files[path], TileBBox(k[1], k[2]), sc)]
        r == CachedTileLoop(tiles, duckTiles[<<path, sc>>], fresh,
                            [l \in LayerIds(sc) |-> <<>>])
    IN  /\ nReq < MaxRequests
        /\ nReq' = nReq + 1
        /\ db' = files
        /\ seeded' = seeded \cup {<<path, sc>>}
        /\ duckTiles' = [duckTiles EXCEPT ![<<path, sc>>] = r.tc]
        /\ ServeThroughLodCache(sc, "duckdb", aoi,
                                [l \in LayerIds(sc) |-> SortedValues(r.by[l])])
        /\ UNCHANGED <<envPath, memTiles>>

\* InMemoryEngine.get, then the LOD cache
RequestInMemory(sc, aoi) ==
    LET tiles == TilesForBBox(EngineTileZoom, aoi)
        fresh == [k \in Range(tiles) |-> QueryScenarioIndex(TileBBox(k[1], k[2]), sc)]
        r == CachedTileLoop(tiles, memTiles[sc], fresh, [l \in LayerIds(sc) |-> <<>>])
    IN  /\ nReq < MaxRequests
        /\ nReq' = nReq + 1
        /\ memTiles' = [memTiles EXCEPT ![sc] = r.tc]
        /\ ServeThroughLodCache(sc, "in_memory", aoi,
                                [l \in LayerIds(sc) |-> SortedValues(r.by[l])])
        /\ UNCHANGED <<envPath, db, seeded, duckTiles>>

NextEngine ==
    \/ \E sc \in Scenarios, aoi \in EngineAois : RequestDuckDB(sc, aoi) /\ UNCHANGED nonEngineVars
    \/ \E sc \in Scenarios, aoi \in EngineAois : RequestInMemory(sc, aoi) /\ UNCHANGED nonEngineVars

SpecEngine == InitAnyEnv /\ [][NextEngine]_vars

(***************************************************************************)
(* C6: every feature of the bundle served to a request for scenario S      *)
(* through engine E was loaded from a layer source of S and was produced   *)
(* by E, also when the seeded scenarios share one DuckDB file.             *)
(***************************************************************************)
C6_NoCrossScenarioLeak ==
    served.made =>
        \A f \in served.feats : f.origin = served.scen /\ f.via = served.engine

(***************************************************************************)
(* apply_lod.  A vertex is [p, dev]: p names its position, dev is the      *)
(* distance in metres by which the line would deviate without it, so       *)
(* Douglas-Peucker simplification with tolerance tol keeps the end points  *)
(* and the inner vertices with dev > tol.  A point feature is [id, x] with *)
(* x its projected coordinate in metres.  Feature ids are numbers whose    *)
(* order stands for the order of the id strings.                           *)
(***************************************************************************)
MaxPointsRendered == 2
MaxAuxPointsRendered == 2
MaxLineVertices == 6
MaxPolyVertices == 8

\* LodBudgets, scaled down; the loose budgets leave every layer untouched
TightBudgets ==
    [maxPoints |-> MaxPointsRendered, maxAux |-> MaxAuxPointsRendered,
     maxLineV |-> MaxLineVertices, maxPolyV |-> MaxPolyVertices]

LooseBudgets ==
    [maxPoints |-> 8 * MaxPointsRendered, maxAux |-> 8 * MaxAuxPointsRendered,
     maxLineV |-> 8 * MaxLineVertices, maxPolyV |-> 8 * MaxPolyVertices]

\* _line_tol_m
LineTolM(zoom) ==
    IF zoom <= 6 * ZoomUnit THEN 250
    ELSE IF zoom <= 8 * ZoomUnit THEN 150
    ELSE IF zoom <= 10 * ZoomUnit THEN 75
    ELSE IF zoom <= 12 * ZoomUnit THEN 25
    ELSE 10

\* _poly_tol_m
PolyTolM(zoom) ==
    IF zoom <= 6 * ZoomUnit THEN 400
    ELSE IF zoom <= 8 * ZoomUnit THEN 250
    ELSE IF zoom <= 10 * ZoomUnit THEN 120
    ELSE IF zoom <= 12 * ZoomUnit THEN 40
    ELSE 15

\* tolerances = [base_tol, base_tol * 2, base_tol * 4, base_tol * 8]
Tolerances(base) == <<base, base * 2, base * 4, base * 8>>

RECURSIVE SelectDevAbove(_, _)
SelectDevAbove(vs, tol) ==
    IF vs = <<>> THEN <<>>
    ELSE (IF Head(vs).dev > tol THEN <<Head(vs)>> ELSE <<>>) \o SelectDevAbove(Tail(vs), tol)

Inner(vs) == SubSeq(vs, 2, Len(vs) - 1)

\* ls.simplify(tolerance_m, preserve_topology=False), coords of >= 2 vertices
SimplifyLineString(coords, tol) ==
    <<coords[1]>> \o SelectDevAbove(Inner(coords), tol) \o <<coords[Len(coords)]>>

\* _simplify_lines
RECURSIVE SimplifyLines(_, _)
SimplifyLines(lines, tol) ==
    IF lines = <<>> THEN <<>>
    ELSE LET f == Head(lines)
         IN  (IF Len(f.coords) < 2 THEN <<>>
              ELSE <<[id |-> f.id, coords |-> SimplifyLineString(f.coords, tol)]>>)
             \o SimplifyLines(Tail(lines), tol)

\* _count_line_vertices
RECURSIVE CountLineVertices(_)
CountLineVertices(lines) ==
    IF lines = <<>> THEN 0 ELSE Len(Head(lines).coords) + CountLineVertices(Tail(lines))

RECURSIVE SumLens(_)
SumLens(rings) == IF rings = <<>> THEN 0 ELSE Len(Head(rings)) + SumLens(Tail(rings))

\* v(p) = sum(len(r) for r in p.rings)
PolyVertices(f) == SumLens(f.rings)

\* _count_poly_vertices
RECURSIVE CountPolyVertices(_)
CountPolyVertices(polys) ==
    IF polys = <<>> THEN 0 ELSE PolyVertices(Head(polys)) + CountPolyVertices(Tail(polys))

RemoveAt(sq, i) == SubSeq(sq, 1, i - 1) \o SubSeq(sq, i + 1, Len(sq))

\* out.sort(key=lambda l: (-len(l.coords), l.id)) on entries [f, w]
RECURSIVE SortHeaviestFirst(_)
SortHeaviestFirst(ws) ==
    IF ws = <<>> THEN <<>>
    ELSE LET i == CHOOSE i \in 1..Len(ws) : \A j \in 1..Len(ws) :
                      \/ ws[i].w > ws[j].w
                      \/ ws[i].w = ws[j].w /\ ws[i].f.id < ws[j].f.id
                      \/ ws[i].w = ws[j].w /\ ws[i].f.id = ws[j].f.id /\ i <= j
         IN  <<ws[i]>> \o SortHeaviestFirst(RemoveAt(ws, i))

\* sort(key=lambda f: f.id), stable
RECURSIVE SortById(_)
SortById(fs) ==
    IF fs = <<>> THEN <<>>
    ELSE LET i == CHOOSE i \in 1..Len(fs) : \A j \in 1..Len(fs) :
                      fs[i].id < fs[j].id \/ (fs[i].id = fs[j].id /\ i <= j)
         IN  <<fs[i]>> \o SortById(RemoveAt(fs, i))

Features(ws) == [i \in 1..Len(ws) |-> ws[i].f]

\* a plausible slip: the heaviest feature is dropped, kept or not
RECURSIVE DropHeaviestUntilBudget(_, _, _, _)
DropHeaviestUntilBudget(ws, total, maxVertices, keep) ==
    IF ws = <<>> \/ total <= maxVertices THEN ws
    ELSE DropHeaviestUntilBudget(Tail(ws), total - ws[1].w, maxVertices, keep)

\* the while loop of _cap_lines_to_vertex_budget
RECURSIVE DropUntilBudget(_, _, _, _)
DropUntilBudget(ws, total, maxVertices, keep) ==
    IF ws = <<>> \/ total <= maxVertices THEN ws
    ELSE LET cands == {i \in 1..Len(ws) : ws[i].f.id \notin keep}
             idx == IF cands # {} THEN CHOOSE i \in cands : \A j \in cands : i <= j ELSE 1
         IN  DropUntilBudget(RemoveAt(ws, idx), total - ws[idx].w, maxVertices, keep)

\* a plausible slip: only one feature is dropped
CapLinesDropsOne(lines, maxVertices, keep) ==
    LET ws == SortHeaviestFirst([i \in 1..Len(lines) |->
                                    [f |-> lines[i], w |-> Len(lines[i].coords)]])
    IN  IF ws = <<>> THEN <<>> ELSE SortById(Features(Tail(ws)))

\* _cap_lines_to_vertex_budget
CapLinesToVertexBudget(lines, maxVertices, keep) ==
    LET ws == SortHeaviestFirst([i \in 1..Len(lines) |->
                                    [f |-> lines[i], w |-> Len(lines[i].coords)]])
    IN  SortById(Features(DropUntilBudget(ws, CountLineVertices(lines), maxVertices, keep)))

\* the tolerance loop: always simplifies the original features
RECURSIVE LineTolLoop(_, _, _, _)
LineTolLoop(out, lines, tols, maxVertices) ==
    IF tols = <<>> \/ CountLineVertices(out) <= maxVertices THEN out
    ELSE LineTolLoop(SimplifyLines(lines, Head(tols)), lines, Tail(tols), maxVertices)

\* a plausible slip: the cap step runs whether or not the budget is exceeded
SimplifyLinesAlwaysCaps(lines, zoom, maxVertices, keep) ==
    CapLinesDropsOne(LineTolLoop(lines, lines, Tolerances(LineTolM(zoom)), maxVertices),
                     maxVertices, keep)

\* _simplify_lines_until_budget; keep is the empty set for keep_ids None
SimplifyLinesUntilBudget(lines, zoom, maxVertices, keep) ==
    LET out == LineTolLoop(lines, lines, Tolerances(LineTolM(zoom)), maxVertices)
    IN  IF CountLineVertices(out) > maxVertices
        THEN CapLinesToVertexBudget(out, maxVertices, keep)
        ELSE out

\* if outer[0] != outer[-1]: outer = [*outer, outer[0]]
CloseRing(outer) == IF outer[1] # outer[Len(outer)] THEN Append(outer, outer[1]) ELSE outer

MaxDev(vs) == CHOOSE d \in {vs[i].dev : i \in 1..Len(vs)} : \A i \in 1..Len(vs) : vs[i].dev <= d

\* poly.simplify(tolerance_m, preserve_topology=True) on a closed ring of
\* >= 4 vertices: as for a line, but the ring stays a ring, so at least two
\* inner vertices (the most significant ones) are kept
SimplifyRing(ring, tol) ==
    LET inner == Inner(ring)
        above == SelectDevAbove(inner, tol)
        top == MaxDev(inner)
        rest == SelectSeq(inner, LAMBDA v : v.dev # top)
        second == MaxDev(rest)
        kept == IF Len(above) >= 2 THEN above
                ELSE SelectSeq(inner, LAMBDA v : v.dev >= second)
    IN  <<ring[1]>> \o kept \o <<ring[Len(ring)]>>

\* _simplify_polygons: outer ring only; a ring of fewer than 4 coordinates
\* makes Polygon(...) raise and the feature is skipped
RECURSIVE SimplifyPolygons(_, _)
SimplifyPolygons(polys, tol) ==
    IF polys = <<>> THEN <<>>
    ELSE LET f == Head(polys)
         IN  (IF f.rings = <<>> \/ f.rings[1] = <<>> THEN <<>>
              ELSE IF Len(CloseRing(f.rings[1])) < 4 THEN <<>>
              ELSE <<[id |-> f.id, rings |-> <<SimplifyRing(CloseRing(f.rings[1]), tol)>>]>>)
             \o SimplifyPolygons(Tail(polys), tol)

\* the while loop of _cap_polys_to_vertex_budget
RECURSIVE PopUntilBudget(_, _, _)
PopUntilBudget(ws, total, maxVertices) ==
    IF ws = <<>> \/ total <= maxVertices THEN ws
    ELSE PopUntilBudget(Tail(ws), total - Head(ws).w, maxVertices)

\* _cap_polys_to_vertex_budget
CapPolysToVertexBudget(polys, maxVertices) ==
    LET ws == SortHeaviestFirst([i \in 1..Len(polys) |->
                                    [f |-> polys[i], w |-> PolyVertices(polys[i])]])
    IN  SortById(Features(PopUntilBudget(ws, CountPolyVertices(polys), maxVertices)))

RECURSIVE PolyTolLoop(_, _, _, _)
PolyTolLoop(out, polys, tols, maxVertices) ==
    IF tols = <<>> \/ CountPolyVertices(out) <= maxVertices THEN out
    ELSE PolyTolLoop(SimplifyPolygons(polys, Head(tols)), polys, Tail(tols), maxVertices)

\* _simplify_polygons_until_budget
SimplifyPolygonsUntilBudget(polys, zoom, maxVertices) ==
    LET out == PolyTolLoop(polys, polys, Tolerances(PolyTolM(zoom)), maxVertices)
    IN  IF CountPolyVertices(out) > maxVertices
        THEN CapPolysToVertexBudget(out, maxVertices)
        ELSE out

\* a plausible slip: the zoom threshold is exclusive
ShouldClusterBelowThreshold(zoom, nPoints, maxPoints) ==
    2 * zoom < 19 * ZoomUnit \/ nPoints > maxPoints

\* _should_cluster_points: zoom <= 9.5 or n_points > max_points
ShouldClusterPoints(zoom, nPoints, maxPoints) ==
    2 * zoom <= 19 * ZoomUnit \/ nPoints > maxPoints

\* _grid_size_m
GridSizeM(zoom) ==
    IF zoom <= 6 * ZoomUnit THEN 8000
    ELSE IF zoom <= 8 * ZoomUnit THEN 4000
    ELSE IF zoom <= 9 * ZoomUnit THEN 2000
    ELSE IF zoom <= 10 * ZoomUnit THEN 1000
    ELSE IF zoom <= 11 * ZoomUnit THEN 500
    ELSE 250

\* buckets[(cx, cy)] = (count + 1, sx + x, sy + y), in first-seen order
RECURSIVE FillBuckets(_, _, _)
FillBuckets(buckets, points, grid) ==
    IF points = <<>> THEN buckets
    ELSE LET c == Head(points).x \div grid
             old == IF DictHas(buckets, c) THEN EntryOf(buckets, c).v ELSE [count |-> 0, sx |-> 0]
         IN  FillBuckets(DictSet(buckets, c, [count |-> old.count + 1, sx |-> old.sx + Head(points).x]),
                         Tail(points), grid)

\* out.sort(key=lambda c: c.count, reverse=True), stable
RECURSIVE SortByCountDesc(_)
SortByCountDesc(cs) ==
    IF cs = <<>> THEN <<>>
    ELSE LET i == CHOOSE i \in 1..Len(cs) : \A j \in 1..Len(cs) :
                      cs[i].count > cs[j].count \/ (cs[i].count = cs[j].count /\ i <= j)
         IN  <<cs[i]>> \o SortByCountDesc(RemoveAt(cs, i))

\* _cluster_points: one marker per non-empty cell, at the mean position
ClusterPoints(points, zoom) ==
    LET buckets == FillBuckets(<<>>, points, GridSizeM(zoom))
    IN  SortByCountDesc([i \in 1..Len(buckets) |->
                            [x |-> buckets[i].v.sx \div buckets[i].v.count,
                             count |-> buckets[i].v.count]])

Take(sq, n) == SubSeq(sq, 1, Min(n, Len(sq)))

\* _cap_points; keep is the empty set for keep_ids None
CapPoints(points, maxPoints, keep) ==
    IF Len(points) <= maxPoints THEN points
    ELSE LET kept == SelectSeq(points, LAMBDA q : q.id \in keep)
             remaining == SelectSeq(points, LAMBDA q : q.id \notin keep)
         IN  IF Len(kept) >= maxPoints THEN Take(SortById(kept), maxPoints)
             ELSE Take(kept \o SortById(remaining), maxPoints)

NoHighlight == [layer |-> "none", ids |-> {}]

LayersOfKind(layers, kind) == SelectSeq(layers, LAMBDA l : l.kind = kind)

\* keep_ids for a layer; the callees read None as the empty set
KeepIds(l, hl) == IF hl.layer # "none" /\ l.id = hl.layer THEN hl.ids ELSE {}

\* poly_budget_each / line_budget_each
BudgetEach(total, nLayers) == Max(0, total \div Max(1, nLayers))

\* the primary point layer: raw features when clustering, else capped
PrimaryPointsOut(l, zoom, hl, b) ==
    IF ShouldClusterPoints(zoom, Len(l.features), b.maxPoints) THEN l.features
    ELSE IF Len(l.features) > b.maxPoints
         THEN CapPoints(l.features, b.maxPoints, KeepIds(l, hl))
         ELSE l.features

\* the features apply_lod returns for one layer of the bundle
LodFeatures(l, layers, zoom, hl, clusterLayer, b) ==
    IF l.kind = "polygons"
    THEN SimplifyPolygonsUntilBudget(
            l.features, zoom,
            BudgetEach(b.maxPolyV, Len(LayersOfKind(layers, "polygons"))))
    ELSE IF l.kind = "lines"
    THEN SimplifyLinesUntilBudget(
            l.features, zoom,
            BudgetEach(b.maxLineV, Len(LayersOfKind(layers, "lines"))),
            KeepIds(l, hl))
    ELSE IF l.id = clusterLayer
    THEN PrimaryPointsOut(l, zoom, hl, b)
    ELSE IF Len(l.features) > b.maxAux
         THEN CapPoints(l.features, b.maxAux, {})
         ELSE l.features

\* beer_clusters: None unless the primary point layer is clustered
LodClusters(layers, zoom, clusterLayer, b) ==
    LET prim == SelectSeq(layers, LAMBDA l : l.kind = "points" /\ l.id = clusterLayer)
    IN  IF prim # <<>> /\ ShouldClusterPoints(zoom, Len(prim[Len(prim)].features), b.maxPoints)
        THEN [on |-> TRUE,
              markers |-> Take(ClusterPoints(prim[Len(prim)].features, zoom), b.maxPoints)]
        ELSE [on |-> FALSE, markers |-> <<>>]

\* the layer apply_lod appends to out_layers for input layer l
OutLayer(l, layers, zoom, hl, clusterLayer, b) ==
    [id |-> l.id, kind |-> l.kind, title |-> l.title, style |-> l.style,
     features |-> LodFeatures(l, layers, zoom, hl, clusterLayer, b)]

\* a plausible slip: the output is assembled from the per-kind results
\* (polygons, then lines, then points) instead of in input order
ApplyLodGroupsByKind(layers, zoom, hl, clusterLayer, b) ==
    LET grouped == LayersOfKind(layers, "polygons") \o LayersOfKind(layers, "lines")
                        \o LayersOfKind(layers, "points")
    IN  [made |-> TRUE,
         layers |-> [i \in 1..Len(grouped) |->
                        OutLayer(grouped[i], layers, zoom, hl, clusterLayer, b)],
         clusters |-> LodClusters(layers, zoom, clusterLayer, b)]

\* apply_lod
ApplyLodTo(layers, zoom, hl, clusterLayer, b) ==
    [made |-> TRUE,
     layers |-> [i \in 1..Len(layers) |->
                    OutLayer(layers[i], layers, zoom, hl, clusterLayer, b)],
     clusters |-> LodClusters(layers, zoom, clusterLayer, b)]

\* layers.get(layer_id)
GetLayer(layers, id) ==
    LET m == SelectSeq(layers, LAMBDA l : l.id = id)
    IN  IF m = <<>>
        THEN [id |-> id, kind |-> "none", title |-> "", style |-> "", features |-> <<>>]
        ELSE m[1]

\* the features drawn by _trace_highlight_layer
HighlightRendered(layers, hl) ==
    LET l == GetLayer(layers, hl.layer)
    IN  IF hl.ids = {} THEN 0
        ELSE IF l.kind = "points"
        THEN Len(SelectSeq(l.features, LAMBDA f : f.id \in hl.ids))
        ELSE IF l.kind = "lines"
        THEN Len(SelectSeq(l.features, LAMBDA f : f.id \in hl.ids /\ Len(f.coords) >= 2))
        ELSE IF l.kind = "polygons"
        THEN Len(SelectSeq(l.features,
                           LAMBDA f : f.id \in hl.ids /\ f.rings # <<>> /\ f.rings[1] # <<>>))
        ELSE 0

Vx(p, dev) == [p |-> p, dev |-> dev]

\* the feature sources the requests draw their bundles from
RoadsLayer ==
    [id |-> "roads", kind |-> "lines", title |-> "Roads", style |-> "line-grey", features |->
        << [id |-> 1, coords |-> <<Vx(1, 0), Vx(2, 30), Vx(3, 100), Vx(4, 400), Vx(5, 0)>>],
           [id |-> 2, coords |-> <<Vx(6, 0), Vx(7, 30), Vx(8, 0)>>],
           [id |-> 3, coords |-> <<Vx(9, 0), Vx(10, 0)>>] >>]

RailsLayer ==
    [id |-> "rails", kind |-> "lines", title |-> "Railways", style |-> "line-dashed", features |->
        << [id |-> 1, coords |-> <<Vx(11, 0), Vx(12, 200), Vx(13, 700), Vx(14, 0)>>] >>]

ParksLayer ==
    [id |-> "parks", kind |-> "polygons", title |-> "Parks", style |-> "fill-green", features |->
        << [id |-> 1, rings |->
                << <<Vx(21, 0), Vx(22, 50), Vx(23, 500), Vx(24, 1200), Vx(25, 90), Vx(21, 0)>> >>],
           [id |-> 2, rings |-> << <<Vx(26, 0), Vx(27, 10), Vx(28, 20), Vx(29, 30)>> >>],
           [id |-> 3, rings |->
                << <<Vx(30, 0), Vx(31, 60), Vx(32, 70), Vx(33, 80), Vx(30, 0)>>,
                   <<Vx(34, 0), Vx(35, 1), Vx(36, 2), Vx(34, 0)>> >>] >>]

PubsLayer ==
    [id |-> "pubs", kind |-> "points", title |-> "Pubs", style |-> "marker-beer", features |->
        <<[id |-> 3, x |-> 100], [id |-> 1, x |-> 300], [id |-> 2, x |-> 5000]>>]

StopsLayer ==
    [id |-> "stops", kind |-> "points", title |-> "Stops", style |-> "marker-dot", features |->
        <<[id |-> 3, x |-> 50], [id |-> 1, x |-> 900], [id |-> 2, x |-> 2100]>>]

LodBundles ==
    { <<ParksLayer, RoadsLayer, RailsLayer, PubsLayer, StopsLayer>>,
      <<RoadsLayer, PubsLayer, ParksLayer>> }

LodViewZooms == {5 * ZoomUnit, 76, 77, 100}

LodHighlights ==
    { NoHighlight,
      [layer |-> "roads", ids |-> {1}], [layer |-> "roads", ids |-> {1, 2}],
      [layer |-> "roads", ids |-> {2}],
      [layer |-> "rails", ids |-> {1}], [layer |-> "parks", ids |-> {1}],
      [layer |-> "pubs", ids |-> {3}], [layer |-> "stops", ids |-> {3}] }

\* scenario.plot.highlightLayerId
ClusterPointsLayerId == "pubs"

\* a request's call of apply_lod
ApplyLod ==
    /\ ~lodIn.made
    /\ \E layers \in LodBundles, zoom \in LodViewZooms, hl \in LodHighlights,
          b \in {TightBudgets, LooseBudgets} :
            /\ lodIn' = [made |-> TRUE, layers |-> layers, zoom |-> zoom, hl |-> hl, b |-> b]
            /\ lodOut' = ApplyLodTo(layers, zoom, hl, ClusterPointsLayerId, b)
    /\ UNCHANGED <<lodOut2, plotStats>>

\* apply_lod applied once more, to the bundle it returned
ApplyLodAgain ==
    /\ lodOut.made
    /\ ~lodOut2.made
    /\ lodOut2' = ApplyLodTo(lodOut.layers, lodIn.zoom, lodIn.hl, ClusterPointsLayerId, lodIn.b)
    /\ UNCHANGED <<lodIn, lodOut, plotStats>>

\* build_map_plot(lod_layers, highlight=...)
BuildMapPlot ==
    /\ lodOut.made
    /\ ~plotStats.made
    /\ plotStats' = [made |-> TRUE,
                     requested |-> Cardinality(lodIn.hl.ids),
                     rendered |-> HighlightRendered(lodOut.layers, lodIn.hl)]
    /\ UNCHANGED <<lodIn, lodOut, lodOut2>>

NextLod ==
    \/ ApplyLod /\ UNCHANGED nonLodVars
    \/ ApplyLodAgain /\ UNCHANGED nonLodVars
    \/ BuildMapPlot /\ UNCHANGED nonLodVars

SpecLod == Init /\ [][NextLod]_vars

(***************************************************************************)
(* The prompt router (agent/router.py).  Geometry is laid out on one axis  *)
(* in metres: a point is a position, a line the stretch between the least  *)
(* and the greatest of its coordinates, a polygon a closed interval.       *)
(***************************************************************************)
FloodedIdsCap == 500
EscapeRoadsCap == 300

\* str.strip() on the layer ids in use: the padded spellings and their cores
PaddedIds == {" roads ", " pubs "}
Strip(id) == IF id = " roads " THEN "roads" ELSE IF id = " pubs " THEN "pubs" ELSE id

\* "road" in layer.id
ContainsRoad(id) == id \in {"roads", " roads ", "railroads"}

NoLayer == [id |-> "", kind |-> "none", title |-> "", features |-> <<>>]

\* LayerBundle.get
BundleGet(layers, layerId) ==
    LET m == SelectSeq(layers, LAMBDA l : l.id = Strip(layerId))
    IN  IF m = <<>> THEN NoLayer ELSE m[1]

Hl(layerId, ids, title) ==
    [some |-> TRUE, layer_id |-> layerId, feature_ids |-> ids, title |-> title]

NoneHl == [some |-> FALSE]

\* AgentResponse; the message is kept as its template and the numbers in it
Response(message, highlight, highlights, focusMap) ==
    [made |-> TRUE, message |-> message, highlight |-> highlight,
     highlights |-> highlights, focus_map |-> focusMap]

MessageOnly(message) == Response(message, NoneHl, <<>>, FALSE)

\* shapely: polygon.intersects(box) for closed intervals
IntervalsMeet(a, b) == a.lo <= b.hi /\ b.lo <= a.hi

\* GeoIndex.polygon_union_for_aoi: the polygons of the layer that meet the
\* AOI box; empty when the layer is missing or is not a polygon layer
PolygonUnionForAoi(layers, layerId, aoi) ==
    LET l == BundleGet(layers, layerId)
    IN  IF l.kind # "polygons" THEN {}
        ELSE {l.features[i].span : i \in {j \in 1..Len(l.features) :
                                            IntervalsMeet(l.features[j].span, aoi)}}

\* is_point_in_union: union.contains(point), false on the boundary
IsPointInUnion(pt, u) == \E iv \in u : iv.lo < pt.x /\ pt.x < iv.hi

SeqMin(xs) == CHOOSE m \in Range(xs) : \A x \in Range(xs) : m <= x
SeqMax(xs) == CHOOSE m \in Range(xs) : \A x \in Range(xs) : m >= x

\* LineString(coords).intersects(union): boundary contact counts
LineIntersectsUnion(coords, u) ==
    \E iv \in u : SeqMin(coords) <= iv.hi /\ iv.lo <= SeqMax(coords)

\* line_m.distance(p)
LinePointDistance(coords, x) ==
    IF x < SeqMin(coords) THEN SeqMin(coords) - x
    ELSE IF x > SeqMax(coords) THEN x - SeqMax(coords)
    ELSE 0

SetMin(S) == CHOOSE m \in S : \A x \in S : m <= x

\* scored.sort(key=lambda row: (row[0], row[1].id)) on rows [d, f]
RECURSIVE SortByScoreThenId(_)
SortByScoreThenId(rows) ==
    IF rows = <<>> THEN <<>>
    ELSE LET i == CHOOSE i \in 1..Len(rows) : \A j \in 1..Len(rows) :
                      \/ rows[i].d < rows[j].d
                      \/ rows[i].d = rows[j].d /\ rows[i].f.id < rows[j].f.id
                      \/ rows[i].d = rows[j].d /\ rows[i].f.id = rows[j].f.id /\ i <= j
         IN  <<rows[i]>> \o SortByScoreThenId(RemoveAt(rows, i))

\* the road layer: the first line layer with "road" in its id, else the
\* first line layer
RoadsLayerOf(layers) ==
    LET named == SelectSeq(layers, LAMBDA l : l.kind = "lines" /\ ContainsRoad(l.id))
        lines == SelectSeq(layers, LAMBDA l : l.kind = "lines")
    IN  IF named # <<>> THEN named[1] ELSE IF lines # <<>> THEN lines[1] ELSE NoLayer

\* _escape_roads_for_flooded_places
EscapeRoadsForFloodedPlaces(layers, aoi, routing) ==
    LET ptsLayer == BundleGet(layers, routing.primaryPointsLayerId)
        roadsLayer == RoadsLayerOf(layers)
        floodUnion == PolygonUnionForAoi(layers, routing.maskPolygonsLayerId, aoi)
        floodedPoints == SelectSeq(ptsLayer.features, LAMBDA q : IsPointInUnion(q, floodUnion))
        floodedIds == Take([i \in 1..Len(floodedPoints) |-> floodedPoints[i].id], FloodedIdsCap)
        roadCandidates == SelectSeq(roadsLayer.features, LAMBDA r : Len(r.coords) >= 2)
        dryCandidates == SelectSeq(roadCandidates,
                                   LAMBDA r : ~LineIntersectsUnion(r.coords, floodUnion))
        useCandidates == IF dryCandidates # <<>> THEN dryCandidates ELSE roadCandidates
        scored == SortByScoreThenId(
                    [i \in 1..Len(useCandidates) |->
                        [d |-> SetMin({LinePointDistance(useCandidates[i].coords,
                                                         floodedPoints[k].x) :
                                            k \in 1..Len(floodedPoints)}),
                         f |-> useCandidates[i]]])
        roadsIds == Take([i \in 1..Len(scored) |-> scored[i].f.id], EscapeRoadsCap)
        floodedH == Hl(ptsLayer.id, Range(floodedIds), "Flooded places")
        roadsH == Hl(roadsLayer.id, Range(roadsIds), "Escape roads")
    IN  IF ptsLayer.kind # "points" THEN MessageOnly([t |-> "no places layer"])
        ELSE IF roadsLayer.kind = "none" THEN MessageOnly([t |-> "no road layer"])
        ELSE IF routing.maskPolygonsLayerId = "" THEN MessageOnly([t |-> "no flood mask"])
        ELSE IF floodedPoints = <<>> THEN MessageOnly([t |-> "flooded: matched 0"])
        ELSE Response([t |-> "escape", floodedMatched |-> Len(floodedPoints),
                       floodedRendered |-> Len(floodedIds),
                       roadsMatched |-> Len(scored), roadsRendered |-> Len(roadsIds)],
                      floodedH, <<floodedH, roadsH>>, FALSE)

\* props.get(k); "" stands for None
PropsGet(props, k) == IF k \in DOMAIN props THEN props[k] ELSE ""

\* the props filter: every configured key is present with an allowed value
PropsMatch(f, ruleProps) ==
    \A k \in DOMAIN ruleProps :
        PropsGet(f.props, k) # "" /\ PropsGet(f.props, k) \in ruleProps[k]

\* the mask filter, applied to point layers only
MaskFilter(layers, aoi, layer, feats, rule) ==
    IF rule.maskLayerId # "" /\ layer.kind = "points"
    THEN LET u == PolygonUnionForAoi(layers, rule.maskLayerId, aoi)
         IN  IF rule.maskMode = "OUTSIDE_MASK"
             THEN SelectSeq(feats, LAMBDA q : ~IsPointInUnion(q, u))
             ELSE SelectSeq(feats, LAMBDA q : IsPointInUnion(q, u))
    ELSE feats

\* the message returned when no id is left to highlight
NothingToHighlight(layer, rule) ==
    IF layer.features = <<>> /\ layer.kind \in {"lines", "polygons"}
    THEN MessageOnly([t |-> "no decoded features", title |-> layer.title])
    ELSE IF DOMAIN rule.props # {}
    THEN IF layer.features # <<>>
         THEN MessageOnly([t |-> "none match your filter", seen |-> Len(layer.features)])
         ELSE MessageOnly([t |-> "could not find any", title |-> layer.title])
    ELSE MessageOnly([t |-> "nothing matching"])

\* a plausible slip: the id list is not truncated to rule.maxFeatures
HighlightIdsUncapped(idsAll, maxFeatures) == idsAll

\* ids = ids_all[:max_features]
HighlightIds(idsAll, maxFeatures) == Take(idsAll, maxFeatures)

\* _apply_highlight_rule
ApplyHighlightRule(layers, aoi, routing, rule) ==
    LET layer == BundleGet(layers, rule.layerId)
        byProps == IF DOMAIN rule.props # {}
                   THEN SelectSeq(layer.features, LAMBDA f : PropsMatch(f, rule.props))
                   ELSE layer.features
        feats == MaskFilter(layers, aoi, layer, byProps, rule)
        idsAll == [i \in 1..Len(feats) |-> feats[i].id]
        ids == HighlightIds(idsAll, rule.maxFeatures)
        hl == Hl(layer.id, Range(ids),
                 IF rule.title # "" THEN rule.title ELSE "Highlighted")
    IN  IF layer.kind = "none" THEN MessageOnly([t |-> "could not find layer"])
        ELSE IF ids = <<>> THEN NothingToHighlight(layer, rule)
        ELSE Response([t |-> "highlight", matched |-> Len(idsAll), rendering |-> Len(ids),
                       clipped |-> Len(idsAll) > Len(ids),
                       mask |-> IF rule.maskLayerId # "" THEN rule.maskMode ELSE ""],
                      hl, <<hl>>, layer.kind = "points")

Abs(n) == IF n < 0 THEN 0 - n ELSE n

\* GeoIndex.distance_to_nearest_point_m; -1 stands for float("inf"): the
\* layer is not an indexed point layer, or it has no points
DistanceToNearestPointM(layers, pt, layerId) ==
    LET m == SelectSeq(layers, LAMBDA l : l.id = layerId /\ l.kind = "points")
    IN  IF m = <<>> \/ m[Len(m)].features = <<>> THEN -1
        ELSE SetMin({Abs(pt.x - m[Len(m)].features[i].x) :
                        i \in 1..Len(m[Len(m)].features)})

\* local_key without the id: dx * dx + dy * dy
LocalKey(pt, center) == (pt.x - center) * (pt.x - center)

\* candidates.sort(key=local_key)
RECURSIVE SortByLocalKey(_, _)
SortByLocalKey(pts, center) ==
    IF pts = <<>> THEN <<>>
    ELSE LET i == CHOOSE i \in 1..Len(pts) : \A j \in 1..Len(pts) :
                      \/ LocalKey(pts[i], center) < LocalKey(pts[j], center)
                      \/ /\ LocalKey(pts[i], center) = LocalKey(pts[j], center)
                         /\ (pts[i].id < pts[j].id \/ (pts[i].id = pts[j].id /\ i <= j))
         IN  <<pts[i]>> \o SortByLocalKey(RemoveAt(pts, i), center)

\* scored.sort(key=lambda x: (x[1], local_key(x[0]))) on rows [f, score]
RECURSIVE SortByScoreThenLocal(_, _)
SortByScoreThenLocal(rows, center) ==
    IF rows = <<>> THEN <<>>
    ELSE LET Before(a, b) ==
                \/ a.score < b.score
                \/ a.score = b.score /\ LocalKey(a.f, center) < LocalKey(b.f, center)
                \/ /\ a.score = b.score /\ LocalKey(a.f, center) = LocalKey(b.f, center)
                   /\ a.f.id < b.f.id
             i == CHOOSE i \in 1..Len(rows) : \A j \in 1..Len(rows) :
                      Before(rows[i], rows[j]) \/ (~Before(rows[j], rows[i]) /\ i <= j)
         IN  <<rows[i]>> \o SortByScoreThenLocal(RemoveAt(rows, i), center)

\* a plausible slip: the last rule in range decides instead of the cheapest
BestScoreLastRule(layers, pt, proximity) ==
    LET inRange == SelectSeq(proximity, LAMBDA r :
                        /\ DistanceToNearestPointM(layers, pt, r.layerId) >= 0
                        /\ DistanceToNearestPointM(layers, pt, r.layerId) <= r.maxMeters)
    IN  IF inRange = <<>> THEN -1
        ELSE DistanceToNearestPointM(layers, pt, inRange[Len(inRange)].layerId)
                * inRange[Len(inRange)].penalty

\* best = min(best, d * rule.penalty) over the rules with d <= rule.maxMeters;
\* -1 stands for float("inf")
BestScore(layers, pt, proximity) ==
    LET inRange == SelectSeq(proximity, LAMBDA r :
                        /\ DistanceToNearestPointM(layers, pt, r.layerId) >= 0
                        /\ DistanceToNearestPointM(layers, pt, r.layerId) <= r.maxMeters)
    IN  IF inRange = <<>> THEN -1
        ELSE SetMin({DistanceToNearestPointM(layers, pt, inRange[i].layerId)
                        * inRange[i].penalty : i \in 1..Len(inRange)})

\* _recommend_points: rows [f, score]
RecommendPoints(layers, aoi, routing, topN, center) ==
    LET ptsLayer == BundleGet(layers, routing.primaryPointsLayerId)
        pts == ptsLayer.features
        candidates ==
            IF routing.maskPolygonsLayerId # ""
            THEN LET u == PolygonUnionForAoi(layers, routing.maskPolygonsLayerId, aoi)
                 IN  SelectSeq(pts, LAMBDA q : ~IsPointInUnion(q, u))
            ELSE pts
        local == LET srt == SortByLocalKey(candidates, center)
                 IN  Take([i \in 1..Len(srt) |-> [f |-> srt[i], score |-> 0]], topN)
        scoredPts == SelectSeq(candidates, LAMBDA q : BestScore(layers, q, routing.proximity) >= 0)
        scored == [i \in 1..Len(scoredPts) |->
                        [f |-> scoredPts[i],
                         score |-> BestScore(layers, scoredPts[i], routing.proximity)]]
    IN  IF ptsLayer.kind # "points" \/ pts = <<>> \/ candidates = <<>> THEN <<>>
        ELSE IF routing.proximity = <<>> \/ scored = <<>> THEN local
        ELSE Take(SortByScoreThenLocal(scored, center), topN)

(***************************************************************************)
(* route_prompt.  A prompt is a sequence of chunks of text; a chunk is a   *)
(* piece of wording or a run of digits.                                    *)
(***************************************************************************)
DefaultCount == 5
ClampLo == 1
ClampHi == 50

Word(text) == [text |-> text, digits |-> FALSE, value |-> 0, long |-> FALSE]

Digits(n) == [text |-> "#", digits |-> TRUE, value |-> n, long |-> FALSE]

\* a run of digits longer than the interpreter's int conversion limit
LongDigits == [text |-> "#", digits |-> TRUE, value |-> 0, long |-> TRUE]

Blank == Word(" ")

\* str.lower() on the wordings in use
Lower(text) ==
    IF text = "Show Layers" THEN "show layers"
    ELSE IF text = "Motorways" THEN "motorways"
    ELSE IF text = "Pub" THEN "pub"
    ELSE text

\* the keywords that are substrings of a piece of (lower-case) text
SubstringsOf(text) ==
    IF text = "how many pubs are flooded"
    THEN {"how many", "pub", "pubs", "flood", "flooded", text}
    ELSE IF text = "recommend pubs" THEN {"recommend", "pub", "pubs", text}
    ELSE IF text = "escape roads" THEN {"escape road", "escape roads"}
    ELSE IF text = " " THEN {}
    ELSE {text}

\* (prompt or "").strip().lower()
RECURSIVE StripBlanks(_)
StripBlanks(chunks) ==
    IF chunks = <<>> THEN <<>>
    ELSE IF Head(chunks) = Blank THEN StripBlanks(Tail(chunks))
    ELSE IF chunks[Len(chunks)] = Blank THEN StripBlanks(SubSeq(chunks, 1, Len(chunks) - 1))
    ELSE chunks

Normalize(prompt) ==
    LET st == StripBlanks(prompt)
    IN  [i \in 1..Len(st) |-> [st[i] EXCEPT !.text = Lower(st[i].text)]]

\* k in p
KeywordIn(k, p) == \E i \in 1..Len(p) : ~p[i].digits /\ k \in SubstringsOf(p[i].text)

AnyKeywordIn(ks, p) == \E k \in ks : KeywordIn(k, p)

\* a plausible slip: the last integer of the prompt is taken
ExtractLastNumber(p, intLimit) ==
    LET runs == SelectSeq(p, LAMBDA c : c.digits)
    IN  IF runs = <<>> THEN DefaultCount
        ELSE IF runs[Len(runs)].long /\ intLimit THEN DefaultCount
        ELSE IF runs[Len(runs)].long THEN ClampHi
        ELSE Max(ClampLo, Min(ClampHi, runs[Len(runs)].value))

\* _extract_number(p, default=5, clamp=(1, 50)); int() raises on a long run
\* of digits when the interpreter enforces its conversion limit
ExtractNumber(p, intLimit) ==
    LET runs == SelectSeq(p, LAMBDA c : c.digits)
    IN  IF runs = <<>> THEN DefaultCount
        ELSE IF runs[1].long /\ intLimit THEN DefaultCount
        ELSE IF runs[1].long THEN ClampHi
        ELSE Max(ClampLo, Min(ClampHi, runs[1].value))

\* _count_points_in_mask
CountPointsInMask(layers, aoi, routing) ==
    LET ptsLayer == BundleGet(layers, routing.primaryPointsLayerId)
        u == PolygonUnionForAoi(layers, routing.maskPolygonsLayerId, aoi)
        inMask == SelectSeq(ptsLayer.features, LAMBDA q : IsPointInUnion(q, u))
    IN  IF ptsLayer.kind # "points" THEN MessageOnly([t |-> "no primary point layer"])
        ELSE IF routing.maskPolygonsLayerId = ""
        THEN MessageOnly([t |-> "found", n |-> Len(ptsLayer.features)])
        ELSE MessageOnly([t |-> "found in mask", inMask |-> Len(inMask),
                          outMask |-> Len(ptsLayer.features) - Len(inMask)])

\* the rules whose keywords match the prompt, in configuration order
MatchingRules(p, routing) ==
    SelectSeq(routing.highlightRules,
              LAMBDA r : AnyKeywordIn({Lower(k) : k \in r.keywords}, p))

MentionsPoints(p, routing) ==
    AnyKeywordIn({Lower(routing.pointLabelSingular), Lower(routing.pointLabelPlural)}, p)

\* a plausible slip: the recommend route is tried before the count route
RouteChosenRecommendFirst(p, routing) ==
    IF p = <<>> \/ AnyKeywordIn(routing.showLayersKeywords, p) THEN "layers"
    ELSE IF MatchingRules(p, routing) # <<>> THEN "rule"
    ELSE IF AnyKeywordIn({"escape road", "escape roads"}, p) THEN "escape"
    ELSE IF AnyKeywordIn(routing.recommendKeywords, p) /\ MentionsPoints(p, routing)
    THEN "recommend"
    ELSE IF /\ AnyKeywordIn(routing.countKeywords, p)
            /\ AnyKeywordIn(routing.maskKeywords, p)
            /\ MentionsPoints(p, routing)
    THEN "count"
    ELSE "fallback"

\* the chain of tests in route_prompt: the first branch whose test holds
RouteChosen(p, routing) ==
    IF p = <<>> \/ AnyKeywordIn(routing.showLayersKeywords, p) THEN "layers"
    ELSE IF MatchingRules(p, routing) # <<>> THEN "rule"
    ELSE IF AnyKeywordIn({"escape road", "escape roads"}, p) THEN "escape"
    ELSE IF /\ AnyKeywordIn(routing.countKeywords, p)
            /\ AnyKeywordIn(routing.maskKeywords, p)
            /\ MentionsPoints(p, routing)
    THEN "count"
    ELSE IF AnyKeywordIn(routing.recommendKeywords, p) /\ MentionsPoints(p, routing)
    THEN "recommend"
    ELSE "fallback"

\* the recommend branch of route_prompt; viewCenter -1 stands for None
RecommendResponse(p, layers, aoi, routing, viewCenter, intLimit) ==
    LET n == ExtractNumber(p, intLimit)
        center == IF viewCenter >= 0 THEN viewCenter ELSE (aoi.lo + aoi.hi) \div 2
        ranked == RecommendPoints(layers, aoi, routing, n, center)
        hl == Hl(routing.primaryPointsLayerId, {ranked[i].f.id : i \in 1..Len(ranked)},
                 "Recommended")
    IN  Response([t |-> "recommendations", count |-> Len(ranked)], hl, <<hl>>, TRUE)

\* route_prompt
RoutePromptTo(prompt, layers, aoi, routing, viewCenter, intLimit) ==
    LET p == Normalize(prompt)
        route == RouteChosen(p, routing)
    IN  IF route = "layers"
        THEN MessageOnly([t |-> "loaded layers",
                          titles |-> [i \in 1..Len(layers) |-> layers[i].title]])
        ELSE IF route = "rule"
        THEN ApplyHighlightRule(layers, aoi, routing, MatchingRules(p, routing)[1])
        ELSE IF route = "escape" THEN EscapeRoadsForFloodedPlaces(layers, aoi, routing)
        ELSE IF route = "count" THEN CountPointsInMask(layers, aoi, routing)
        ELSE IF route = "recommend"
        THEN RecommendResponse(p, layers, aoi, routing, viewCenter, intLimit)
        ELSE MessageOnly([t |-> "not recognized"])

NoProps == [k \in {} |-> ""]

\* the feature sources the router's bundles are drawn from
PlacePoints ==
    << [id |-> 1, x |-> 30, props |-> [amenity |-> "pub"]],
       [id |-> 2, x |-> 50, props |-> [amenity |-> "bar"]],
       [id |-> 3, x |-> 65, props |-> [amenity |-> "pub"]],
       [id |-> 4, x |-> 40, props |-> NoProps] >>

RoadLines ==
    << [id |-> 1, coords |-> <<25, 35>>, props |-> [fclass |-> "motorway"]],
       [id |-> 2, coords |-> <<10, 30, 45>>, props |-> [fclass |-> "residential"]],
       [id |-> 3, coords |-> <<45, 55>>, props |-> [fclass |-> "motorway"]],
       [id |-> 4, coords |-> <<80, 90>>, props |-> NoProps],
       [id |-> 5, coords |-> <<40, 42>>, props |-> [fclass |-> "trunk"]] >>

TramLines == << [id |-> 1, coords |-> <<0, 5>>, props |-> NoProps] >>

FloodPolygons ==
    << [id |-> 1, span |-> [lo |-> 20, hi |-> 40], props |-> NoProps],
       [id |-> 2, span |-> [lo |-> 60, hi |-> 70], props |-> NoProps] >>

Pick(catalogue, ids) == SelectSeq(catalogue, LAMBDA f : f.id \in ids)

IdsOf(catalogue) == {catalogue[i].id : i \in 1..Len(catalogue)}

AgentLayer(id, kind, title, features) ==
    [id |-> id, kind |-> kind, title |-> title, features |-> features]

\* a bundle: flood polygons, a tram line layer, optionally the road layer,
\* and the primary point layer
AgentBundle(floodIds, withRoads, roadIds, placeIds) ==
    << AgentLayer("flood", "polygons", "Flood extent", Pick(FloodPolygons, floodIds)),
       AgentLayer("tram", "lines", "Tram", TramLines) >>
    \o (IF withRoads THEN << AgentLayer("roads", "lines", "Roads", Pick(RoadLines, roadIds)) >>
        ELSE <<>>)
    \o << AgentLayer("pubs", "points", "Pubs", Pick(PlacePoints, placeIds)) >>

AgentAois == {[lo |-> 0, hi |-> 100], [lo |-> 0, hi |-> 50]}

\* ScenarioRouting: the two layer roles; "" stands for None
LayerRoles == {[primaryPointsLayerId |-> "pubs", maskPolygonsLayerId |-> "flood"],
               [primaryPointsLayerId |-> "pubs", maskPolygonsLayerId |-> ""],
               [primaryPointsLayerId |-> "taverns", maskPolygonsLayerId |-> "flood"]}

\* a prompt routed to _escape_roads_for_flooded_places
EscapeRoads ==
    /\ ~agentIn.made
    /\ \E floodIds \in SUBSET IdsOf(FloodPolygons), withRoads \in BOOLEAN,
          roadIds \in SUBSET IdsOf(RoadLines), placeIds \in SUBSET IdsOf(PlacePoints),
          aoi \in AgentAois, routing \in LayerRoles :
            LET layers == AgentBundle(floodIds, withRoads, roadIds, placeIds)
            IN  /\ withRoads \/ roadIds = {}
                /\ agentIn' = [made |-> TRUE, route |-> "escape", layers |-> layers,
                               aoi |-> aoi, routing |-> routing]
                /\ agentOut' = EscapeRoadsForFloodedPlaces(layers, aoi, routing)

RuleLayerIds == {"roads", " roads ", "pubs", "flood", "missing"}

RuleProps == {NoProps, [fclass |-> {"motorway", "trunk"}], [amenity |-> {"pub"}],
              [fclass |-> {"motorway"}, amenity |-> {"pub"}]}

RuleMaxFeatures == {1, 2, 500}

HighlightRules ==
    [keywords : {{"motorways"}}, layerId : RuleLayerIds, title : {""},
     maxFeatures : RuleMaxFeatures, maskLayerId : {"", "flood", "levees"},
     maskMode : {"IN_MASK", "OUTSIDE_MASK"}, props : RuleProps]

\* a prompt that matched a highlight rule
HighlightRule ==
    /\ ~agentIn.made
    /\ \E floodIds \in {{}, {1}, {1, 2}}, roadIds \in {{}, {1, 2, 3}, IdsOf(RoadLines)},
          placeIds \in {{}, {1, 2}, IdsOf(PlacePoints)},
          aoi \in AgentAois, rule \in HighlightRules :
            LET layers == AgentBundle(floodIds, TRUE, roadIds, placeIds)
                routing == [primaryPointsLayerId |-> "pubs", maskPolygonsLayerId |-> "flood"]
            IN  /\ rule.maskLayerId = "" => rule.maskMode = "IN_MASK"
                /\ agentIn' = [made |-> TRUE, route |-> "rule", layers |-> layers,
                               aoi |-> aoi, routing |-> routing, rule |-> rule]
                /\ agentOut' = ApplyHighlightRule(layers, aoi, routing, rule)

StationPoints ==
    << [id |-> 1, x |-> 32, props |-> NoProps], [id |-> 2, x |-> 70, props |-> NoProps] >>

KioskPoints == << [id |-> 1, x |-> 48, props |-> NoProps] >>

ProximityRule(layerId, maxMeters, penalty) ==
    [layerId |-> layerId, maxMeters |-> maxMeters, penalty |-> penalty]

\* ScenarioRouting.proximity
ProximityLists ==
    { <<>>,
      <<ProximityRule("stations", 25, 1)>>,
      <<ProximityRule("stations", 5, 3)>>,
      <<ProximityRule("stations", 25, 1), ProximityRule("kiosks", 10, 1)>>,
      <<ProximityRule("kiosks", 25, 0), ProximityRule("stations", 25, 1)>>,
      <<ProximityRule("depots", 25, 1)>> }

TopNs == {1, 2, 5}

PreferCenters == {40, 60}

\* _recommend_points called by the recommend route
Recommend ==
    /\ ~agentIn.made
    /\ \E floodIds \in {{}, {1}, {1, 2}}, placeIds \in SUBSET IdsOf(PlacePoints),
          stationIds \in SUBSET IdsOf(StationPoints), kioskIds \in SUBSET IdsOf(KioskPoints),
          roles \in LayerRoles, proximity \in ProximityLists,
          topN \in TopNs, center \in PreferCenters :
            LET layers == AgentBundle(floodIds, FALSE, {}, placeIds)
                            \o << AgentLayer("stations", "points", "Stations",
                                             Pick(StationPoints, stationIds)),
                                  AgentLayer("kiosks", "points", "Kiosks",
                                             Pick(KioskPoints, kioskIds)) >>
                aoi == [lo |-> 0, hi |-> 100]
                routing == [primaryPointsLayerId |-> roles.primaryPointsLayerId,
                            maskPolygonsLayerId |-> roles.maskPolygonsLayerId,
                            proximity |-> proximity]
            IN  /\ agentIn' = [made |-> TRUE, route |-> "rank", layers |-> layers,
                               aoi |-> aoi, routing |-> routing, topN |-> topN,
                               center |-> center]
                /\ agentOut' = [made |-> TRUE,
                                ranked |-> RecommendPoints(layers, aoi, routing, topN, center)]

PromptChunks ==
    { Word("Show Layers"), Word("motorways"), Word("escape roads"),
      Word("how many pubs are flooded"), Word("recommend"), Word("recommend pubs"),
      Blank, Digits(0), Digits(7), Digits(99), LongDigits }

MaxPromptLen == 3

Prompts == UNION {[1..n -> PromptChunks] : n \in 0..MaxPromptLen}

MotorwayRule ==
    [keywords |-> {"Motorways"}, layerId |-> "roads", title |-> "Motorways",
     maxFeatures |-> 500, maskLayerId |-> "", maskMode |-> "IN_MASK",
     props |-> [fclass |-> {"motorway", "trunk"}]]

FloodedPubsRule ==
    [keywords |-> {"flooded", "motorways"}, layerId |-> "pubs", title |-> "Flooded pubs",
     maxFeatures |-> 2, maskLayerId |-> "flood", maskMode |-> "IN_MASK", props |-> NoProps]

RuleLists == {<<>>, <<MotorwayRule, FloodedPubsRule>>, <<FloodedPubsRule, MotorwayRule>>}

\* ScenarioRouting
Routing(rules, proximity) ==
    [primaryPointsLayerId |-> "pubs", maskPolygonsLayerId |-> "flood",
     pointLabelSingular |-> "Pub", pointLabelPlural |-> "pubs",
     showLayersKeywords |-> {"show layers", "help"}, countKeywords |-> {"how many"},
     maskKeywords |-> {"flood", "flooded"}, recommendKeywords |-> {"recommend"},
     proximity |-> proximity, highlightRules |-> rules]

ViewCenters == {-1, 40}

\* a call of route_prompt
Route ==
    /\ ~agentIn.made
    /\ \E prompt \in Prompts, rules \in RuleLists, viewCenter \in ViewCenters,
          intLimit \in BOOLEAN :
            LET layers == AgentBundle({1, 2}, TRUE, IdsOf(RoadLines), IdsOf(PlacePoints))
                            \o << AgentLayer("stations", "points", "Stations", StationPoints) >>
                aoi == [lo |-> 0, hi |-> 100]
                routing == Routing(rules, <<ProximityRule("stations", 25, 1)>>)
            IN  /\ agentIn' = [made |-> TRUE, route |-> "prompt", prompt |-> prompt,
                               layers |-> layers, aoi |-> aoi, routing |-> routing,
                               viewCenter |-> viewCenter, intLimit |-> intLimit,
                               n |-> ExtractNumber(Normalize(prompt), intLimit)]
                /\ agentOut' = RoutePromptTo(prompt, layers, aoi, routing, viewCenter, intLimit)

NextAgent ==
    \/ EscapeRoads /\ UNCHANGED nonAgentVars
    \/ HighlightRule /\ UNCHANGED nonAgentVars
    \/ Recommend /\ UNCHANGED nonAgentVars
    \/ Route /\ UNCHANGED nonAgentVars

SpecAgent == Init /\ [][NextAgent]_vars

\* the 'Escape roads' highlight of a response, if it has one
EscapeRoadsHighlight(resp) ==
    SelectSeq(resp.highlights, LAMBDA h : h.title = "Escape roads")

(***************************************************************************)
(* C16: on the escape-roads route, when the bundle has at least one        *)
(* flooded primary point, no road whose geometry intersects the flood-mask *)
(* union is among the feature ids of the 'Escape roads' highlight, also    *)
(* when every road in the view intersects the mask.                        *)
(***************************************************************************)
C16_NoFloodedEscapeRoad ==
    (agentIn.made /\ agentIn.route = "escape") =>
        LET u == PolygonUnionForAoi(agentIn.layers, agentIn.routing.maskPolygonsLayerId,
                                    agentIn.aoi)
            places == BundleGet(agentIn.layers, agentIn.routing.primaryPointsLayerId)
            roads == RoadsLayerOf(agentIn.layers)
        IN  (\E i \in 1..Len(places.features) : IsPointInUnion(places.features[i], u)) =>
                \A k \in 1..Len(EscapeRoadsHighlight(agentOut)) :
                    \A i \in 1..Len(roads.features) :
                        LineIntersectsUnion(roads.features[i].coords, u) =>
                            roads.features[i].id
                                \notin EscapeRoadsHighlight(agentOut)[k].feature_ids

OverlayCap == 60000

HighlightLayerIds(layers, hl) ==
    {GetLayer(layers, hl.layer).features[i].id : i \in 1..Len(GetLayer(layers, hl.layer).features)}

(***************************************************************************)
(* C8: when the requested highlight ids are all ids of features of the     *)
(* highlight layer before LOD, the plot builder renders at least           *)
(* min(|requested|, overlay cap) highlight features, whatever LOD dropped. *)
(***************************************************************************)
C8_HighlightSurvivesLod ==
    (plotStats.made /\ lodIn.hl.ids # {}
        /\ lodIn.hl.ids \subseteq HighlightLayerIds(lodIn.layers, lodIn.hl)) =>
            plotStats.rendered >= Min(plotStats.requested, OverlayCap)

(***************************************************************************)
(* C9: after apply_lod every line layer holds at most max_line_vertices    *)
(* div (number of line layers) vertices and every polygon layer at most    *)
(* max_poly_vertices div (number of polygon layers) ring vertices, or all  *)
(* features left in the layer are in the highlight keep-set.               *)
(***************************************************************************)
C9_VertexBudgets ==
    lodOut.made =>
        \A i \in 1..Len(lodOut.layers) :
            LET l == lodOut.layers[i]
                allKept == \A f \in Range(l.features) : f.id \in KeepIds(l, lodIn.hl)
            IN  /\ l.kind = "lines" =>
                      \/ CountLineVertices(l.features)
                            <= lodIn.b.maxLineV \div Len(LayersOfKind(lodIn.layers, "lines"))
                      \/ allKept
                /\ l.kind = "polygons" =>
                      \/ CountPolyVertices(l.features)
                            <= lodIn.b.maxPolyV \div Len(LayersOfKind(lodIn.layers, "polygons"))
                      \/ allKept

\* tight budgets: a line layer and a polygon layer were both simplified and
\* then capped, each keeping some but not all of its features
C9_Witness ==
    /\ lodOut.made
    /\ lodIn.b = TightBudgets
    /\ \E i \in 1..Len(lodOut.layers) :
            /\ lodOut.layers[i].kind = "lines"
            /\ Len(lodOut.layers[i].features) > 0
            /\ Len(lodOut.layers[i].features) < Len(lodIn.layers[i].features)
    /\ \E i \in 1..Len(lodOut.layers) :
            /\ lodOut.layers[i].kind = "polygons"
            /\ Len(lodOut.layers[i].features) > 0
            /\ Len(lodOut.layers[i].features) < Len(lodIn.layers[i].features)
            /\ CountPolyVertices(lodOut.layers[i].features)
                    < CountPolyVertices(lodIn.layers[i].features) - 2

(***************************************************************************)
(* C10: apply_lod is idempotent: applied with the same zoom, budgets,      *)
(* cluster layer and highlight to the bundle it returned, it yields for    *)
(* every layer the same features (ids and geometry) and the same clusters. *)
(***************************************************************************)
C10_ApplyLodIdempotent ==
    lodOut2.made =>
        /\ Len(lodOut2.layers) = Len(lodOut.layers)
        /\ \A i \in 1..Len(lodOut.layers) :
                /\ lodOut2.layers[i].id = lodOut.layers[i].id
                /\ Range(lodOut2.layers[i].features) = Range(lodOut.layers[i].features)
                /\ Len(lodOut2.layers[i].features) = Len(lodOut.layers[i].features)
        /\ lodOut2.clusters = lodOut.clusters

\* a first pass that simplified, capped and clustered, then applied again
C10_Witness ==
    /\ lodOut2.made
    /\ lodIn.b = TightBudgets
    /\ lodOut.clusters.on
    /\ Len(lodOut.clusters.markers) = MaxPointsRendered
    /\ \A i \in 1..Len(lodOut.layers) :
            lodOut.layers[i].id # ClusterPointsLayerId =>
                lodOut.layers[i].features # lodIn.layers[i].features

(***************************************************************************)
(* C11: the bundle apply_lod returns has as many layers as its input, and  *)
(* the layer at each position has the id, kind, title and style of the     *)
(* input layer at that position; only the feature lists may differ.        *)
(***************************************************************************)
C11_LayerFramePreserved ==
    lodOut.made =>
        /\ Len(lodOut.layers) = Len(lodIn.layers)
        /\ \A i \in 1..Len(lodIn.layers) :
                /\ lodOut.layers[i].id = lodIn.layers[i].id
                /\ lodOut.layers[i].kind = lodIn.layers[i].kind
                /\ lodOut.layers[i].title = lodIn.layers[i].title
                /\ lodOut.layers[i].style = lodIn.layers[i].style

\* a bundle whose kinds are interleaved, with feature lists that did change
C11_Witness ==
    /\ lodOut.made
    /\ lodIn.layers[1].kind = "lines"
    /\ lodIn.layers[3].kind = "polygons"
    /\ \E i \in 1..Len(lodIn.layers) :
            lodOut.layers[i].features # lodIn.layers[i].features

FeatureIds(fs) == {fs[i].id : i \in 1..Len(fs)}

(***************************************************************************)
(* C12: in the line layer that is the highlight layer, no line of the      *)
(* keep-set is missing from apply_lod's output while a non-kept line is    *)
(* still there; and when the kept lines together fit the per-layer vertex  *)
(* budget, every one of them is in the output.                             *)
(***************************************************************************)
C12_KeptLinesSurviveCap ==
    lodOut.made =>
        \A i \in 1..Len(lodIn.layers) :
            (lodIn.layers[i].kind = "lines" /\ lodIn.layers[i].id = lodIn.hl.layer) =>
                LET keptIn == SelectSeq(lodIn.layers[i].features,
                                        LAMBDA f : f.id \in lodIn.hl.ids)
                    outIds == FeatureIds(lodOut.layers[i].features)
                    budget == BudgetEach(lodIn.b.maxLineV,
                                         Len(LayersOfKind(lodIn.layers, "lines")))
                IN  /\ (FeatureIds(keptIn) \ outIds # {}) => outIds \subseteq lodIn.hl.ids
                    /\ CountLineVertices(keptIn) <= budget => FeatureIds(keptIn) \subseteq outIds

\* the cap ran on the highlight layer: a kept line is in the output although
\* a lighter line outside the keep-set was dropped
C12_Witness ==
    /\ lodOut.made
    /\ \E i \in 1..Len(lodIn.layers) :
            /\ lodIn.layers[i].kind = "lines"
            /\ lodIn.layers[i].id = lodIn.hl.layer
            /\ \E k \in 1..Len(lodOut.layers[i].features) :
               \E d \in 1..Len(lodIn.layers[i].features) :
                    /\ lodOut.layers[i].features[k].id \in lodIn.hl.ids
                    /\ lodIn.layers[i].features[d].id \notin lodIn.hl.ids
                    /\ lodIn.layers[i].features[d].id
                            \notin FeatureIds(lodOut.layers[i].features)
                    /\ Len(lodIn.layers[i].features[d].coords)
                            < Len(lodOut.layers[i].features[k].coords)

(***************************************************************************)
(* C13: in the polygon layer that is the highlight layer, the drop of      *)
(* heaviest features never drops a polygon of the keep-set before every    *)
(* polygon outside the keep-set has been dropped: if a kept polygon is     *)
(* missing from the output, no non-kept polygon is left in it.             *)
(***************************************************************************)
C13_KeptPolygonsDroppedLast ==
    lodOut.made =>
        \A i \in 1..Len(lodIn.layers) :
            (lodIn.layers[i].kind = "polygons" /\ lodIn.layers[i].id = lodIn.hl.layer) =>
                LET keptIn == SelectSeq(lodIn.layers[i].features,
                                        LAMBDA f : f.id \in lodIn.hl.ids)
                    outIds == FeatureIds(lodOut.layers[i].features)
                IN  (FeatureIds(keptIn) \ outIds # {}) => outIds \subseteq lodIn.hl.ids

(***************************************************************************)
(* C14: when the highlight is on an auxiliary point layer holding more     *)
(* than max_aux_points_rendered features and names at most                 *)
(* max_aux_points_rendered ids, every highlighted point of the input is in *)
(* that layer after apply_lod.                                             *)
(***************************************************************************)
C14_AuxHighlightSurvivesCap ==
    lodOut.made =>
        \A i \in 1..Len(lodIn.layers) :
            (/\ lodIn.layers[i].kind = "points"
             /\ lodIn.layers[i].id # ClusterPointsLayerId
             /\ lodIn.layers[i].id = lodIn.hl.layer
             /\ Len(lodIn.layers[i].features) > lodIn.b.maxAux
             /\ Cardinality(lodIn.hl.ids) <= lodIn.b.maxAux) =>
                (lodIn.hl.ids \cap FeatureIds(lodIn.layers[i].features))
                    \subseteq FeatureIds(lodOut.layers[i].features)

RECURSIVE SumCounts(_)
SumCounts(ms) == IF ms = <<>> THEN 0 ELSE Head(ms).count + SumCounts(Tail(ms))

RulePassing ==
    LET layer == BundleGet(agentIn.layers, agentIn.rule.layerId)
        u == PolygonUnionForAoi(agentIn.layers, agentIn.rule.maskLayerId, agentIn.aoi)
    IN  {f \in Range(layer.features) :
            /\ PropsMatch(f, agentIn.rule.props)
            /\ (layer.kind = "points" /\ agentIn.rule.maskLayerId # "") =>
                    IF agentIn.rule.maskMode = "OUTSIDE_MASK"
                    THEN ~IsPointInUnion(f, u) ELSE IsPointInUnion(f, u)}

RuleOutcome(expectedLayerId) ==
    (/\ agentIn.made /\ agentIn.route = "rule"
     /\ BundleGet(agentIn.layers, agentIn.rule.layerId).kind # "none") =>
        IF RulePassing = {}
        THEN ~agentOut.highlight.some /\ agentOut.highlights = <<>>
        ELSE /\ agentOut.highlight.some
             /\ agentOut.highlight.layer_id = expectedLayerId
             /\ agentOut.highlight.feature_ids \subseteq {f.id : f \in RulePassing}
             /\ Cardinality(agentOut.highlight.feature_ids) <= agentIn.rule.maxFeatures
             /\ agentOut.message.t = "highlight"
             /\ agentOut.message.matched = Cardinality(RulePassing)
             /\ agentOut.message.rendering = Cardinality(agentOut.highlight.feature_ids)

\* C18 as the specification states it: the highlight's layer_id is rule.layerId
C18_AsStated == RuleOutcome(IF agentIn.made /\ agentIn.route = "rule"
                            THEN agentIn.rule.layerId ELSE "")

(***************************************************************************)
(* C18: for a matched highlight rule whose layer exists, the highlight's   *)
(* layer_id is the id of the layer found, that is rule.layerId without     *)
(* surrounding whitespace; its feature_ids are ids of features of that     *)
(* layer that satisfy every props condition and, on point layers, the      *)
(* IN_MASK / OUTSIDE_MASK condition; there are at most rule.maxFeatures of *)
(* them; the message reports matched = number of features passing the      *)
(* filters and rendering = number of ids kept; when no feature passes, no  *)
(* highlight is emitted.                                                   *)
(***************************************************************************)
C18_HighlightRuleResult ==
    RuleOutcome(IF agentIn.made /\ agentIn.route = "rule"
                THEN Strip(agentIn.rule.layerId) ELSE "")

\* a rule with a padded layer id and a props filter whose matches were
\* truncated to maxFeatures
C18_Witness ==
    /\ agentIn.made /\ agentIn.route = "rule"
    /\ agentIn.rule.layerId \in PaddedIds
    /\ DOMAIN agentIn.rule.props # {}
    /\ agentOut.highlight.some
    /\ agentOut.message.matched > agentOut.message.rendering

\* the candidates of a ranking call: the primary points outside the mask
RankCandidates ==
    LET l == BundleGet(agentIn.layers, agentIn.routing.primaryPointsLayerId)
        u == PolygonUnionForAoi(agentIn.layers, agentIn.routing.maskPolygonsLayerId,
                                agentIn.aoi)
    IN  IF l.kind # "points" THEN {}
        ELSE {q \in Range(l.features) :
                agentIn.routing.maskPolygonsLayerId # "" => ~IsPointInUnion(q, u)}

\* distance x penalty of the rules whose nearest point is within maxMeters
RuleScores(q) ==
    {DistanceToNearestPointM(agentIn.layers, q, r.layerId) * r.penalty :
        r \in {r \in Range(agentIn.routing.proximity) :
                /\ DistanceToNearestPointM(agentIn.layers, q, r.layerId) >= 0
                /\ DistanceToNearestPointM(agentIn.layers, q, r.layerId) <= r.maxMeters}}

RankScored == {q \in RankCandidates : RuleScores(q) # {}}

RankPool == IF RankScored # {} THEN RankScored ELSE RankCandidates

\* (score, distance to centre, id) when a candidate is scored, else
\* (distance to centre, id)
RankBefore(a, b) ==
    LET sa == IF RankScored # {} THEN SetMin(RuleScores(a)) ELSE 0
        sb == IF RankScored # {} THEN SetMin(RuleScores(b)) ELSE 0
        da == Abs(a.x - agentIn.center)
        db0 == Abs(b.x - agentIn.center)
    IN  \/ sa < sb
        \/ sa = sb /\ da < db0
        \/ sa = sb /\ da = db0 /\ a.id < b.id

(***************************************************************************)
(* C20: _recommend_points scores a candidate with the least distance x     *)
(* penalty over the proximity rules whose nearest point is within          *)
(* maxMeters, and leaves it unscored when there is none; when a candidate  *)
(* is scored the result is the first n scored candidates in the order      *)
(* (score, distance to centre, id), otherwise, and without proximity       *)
(* rules, the first n candidates in the order (distance to centre, id).    *)
(***************************************************************************)
C20_RecommendRanking ==
    (agentIn.made /\ agentIn.route = "rank") =>
        LET res == agentOut.ranked
            chosen == {res[i].f : i \in 1..Len(res)}
        IN  /\ Len(res) = Min(agentIn.topN, Cardinality(RankPool))
            /\ chosen \subseteq RankPool
            /\ \A i \in 1..Len(res) :
                    res[i].score = IF RankScored # {} THEN SetMin(RuleScores(res[i].f)) ELSE 0
            /\ \A i, j \in 1..Len(res) : i < j => RankBefore(res[i].f, res[j].f)
            /\ \A q \in RankPool \ chosen : \A i \in 1..Len(res) : RankBefore(res[i].f, q)

\* two proximity rules, a candidate left unscored, a tie in score settled
\* by the distance to the centre, and a scored candidate cut off by n
C20_Witness ==
    /\ agentIn.made /\ agentIn.route = "rank"
    /\ Len(agentIn.routing.proximity) = 2
    /\ RankScored # {} /\ RankScored # RankCandidates
    /\ Len(agentOut.ranked) >= 2
    /\ agentOut.ranked[1].score = agentOut.ranked[2].score
    /\ Cardinality(RankScored) > Len(agentOut.ranked)

\* the route a response comes from, told by its message
RouteOfMessage(t) ==
    IF t = "loaded layers" THEN "layers"
    ELSE IF t \in {"highlight", "could not find layer", "no decoded features",
                   "none match your filter", "could not find any", "nothing matching"}
    THEN "rule"
    ELSE IF t \in {"escape", "no places layer", "no road layer", "no flood mask",
                   "flooded: matched 0"}
    THEN "escape"
    ELSE IF t \in {"found", "found in mask", "no primary point layer"} THEN "count"
    ELSE IF t = "recommendations" THEN "recommend"
    ELSE IF t = "not recognized" THEN "fallback"
    ELSE "unknown"

RuleMatches(r, p) == \E k \in r.keywords : KeywordIn(Lower(k), p)

(***************************************************************************)
(* C17: route_prompt tries its routes in the order (1) empty prompt or a   *)
(* showLayersKeywords match, (2) the highlight rules in configuration      *)
(* order, (3) the escape-roads keywords, (4) count-in-mask, (5) recommend, *)
(* (6) fallback help, and the response is that of the first route whose    *)
(* condition holds, never that of a later one.                             *)
(***************************************************************************)
C17_RouteOrder ==
    (agentIn.made /\ agentIn.route = "prompt") =>
        LET p == Normalize(agentIn.prompt)
            r == agentIn.routing
            rules == r.highlightRules
            answered == RouteOfMessage(agentOut.message.t)
            c1 == p = <<>> \/ \E k \in r.showLayersKeywords : KeywordIn(k, p)
            c2 == \E i \in 1..Len(rules) : RuleMatches(rules[i], p)
            c3 == KeywordIn("escape road", p) \/ KeywordIn("escape roads", p)
            points == \/ KeywordIn(Lower(r.pointLabelSingular), p)
                      \/ KeywordIn(Lower(r.pointLabelPlural), p)
            c4 == /\ \E k \in r.countKeywords : KeywordIn(k, p)
                  /\ \E k \in r.maskKeywords : KeywordIn(k, p)
                  /\ points
            c5 == points /\ \E k \in r.recommendKeywords : KeywordIn(k, p)
        IN  /\ c1 => answered = "layers"
            /\ (~c1 /\ c2) =>
                    /\ answered = "rule"
                    /\ \A i \in 1..Len(rules) :
                            (RuleMatches(rules[i], p)
                                /\ \A j \in 1..(i - 1) : ~RuleMatches(rules[j], p)) =>
                                    /\ agentOut.highlight.some
                                    /\ agentOut.highlight.title = rules[i].title
            /\ (~c1 /\ ~c2 /\ c3) => answered = "escape"
            /\ (~c1 /\ ~c2 /\ ~c3 /\ c4) => answered = "count"
            /\ (~c1 /\ ~c2 /\ ~c3 /\ ~c4 /\ c5) => answered = "recommend"
            /\ (~c1 /\ ~c2 /\ ~c3 /\ ~c4 /\ ~c5) => answered = "fallback"

\* a prompt that matches two highlight rules and the escape-roads keywords:
\* the rule configured first answers
C17_Witness ==
    /\ agentIn.made /\ agentIn.route = "prompt"
    /\ agentIn.routing.highlightRules = <<FloodedPubsRule, MotorwayRule>>
    /\ RuleMatches(FloodedPubsRule, Normalize(agentIn.prompt))
    /\ RuleMatches(MotorwayRule, Normalize(agentIn.prompt))
    /\ KeywordIn("escape roads", Normalize(agentIn.prompt))
    /\ agentOut.highlight.some
    /\ agentOut.highlight.title = "Flooded pubs"

(***************************************************************************)
(* C19: in the recommend route the requested count n is the first integer  *)
(* of the prompt clamped to [1, 50], and 5 when the prompt has no digits   *)
(* or the integer cannot be parsed; the highlight then holds at most n     *)
(* ids of features of the primary points layer, none of them inside the    *)
(* mask union, and focus_map is true.                                      *)
(***************************************************************************)
C19_RecommendCount ==
    (/\ agentIn.made /\ agentIn.route = "prompt"
     /\ RouteOfMessage(agentOut.message.t) = "recommend") =>
        LET p == Normalize(agentIn.prompt)
            firstRun == CHOOSE i \in 1..Len(p) : p[i].digits /\ \A j \in 1..(i - 1) : ~p[j].digits
            n == IF \A i \in 1..Len(p) : ~p[i].digits THEN 5
                 ELSE IF p[firstRun].long
                      THEN (IF agentIn.intLimit THEN 5 ELSE 50)
                 ELSE IF p[firstRun].value < 1 THEN 1
                 ELSE IF p[firstRun].value > 50 THEN 50
                 ELSE p[firstRun].value
            primary == BundleGet(agentIn.layers, agentIn.routing.primaryPointsLayerId)
            u == PolygonUnionForAoi(agentIn.layers, agentIn.routing.maskPolygonsLayerId,
                                    agentIn.aoi)
        IN  /\ agentIn.n = n
            /\ agentOut.highlight.some
            /\ agentOut.highlight.layer_id = agentIn.routing.primaryPointsLayerId
            /\ Cardinality(agentOut.highlight.feature_ids) <= n
            /\ \A id \in agentOut.highlight.feature_ids :
                    \E q \in Range(primary.features) : q.id = id /\ ~IsPointInUnion(q, u)
            /\ agentOut.focus_map

\* a prompt with two integers, the first below the clamp: n is 1 and one
\* point is recommended although more are outside the mask
C19_Witness ==
    /\ agentIn.made /\ agentIn.route = "prompt"
    /\ RouteOfMessage(agentOut.message.t) = "recommend"
    /\ Len(SelectSeq(Normalize(agentIn.prompt), LAMBDA ch : ch.digits)) = 2
    /\ agentIn.n = 1
    /\ Cardinality(agentOut.highlight.feature_ids) = 1

(***************************************************************************)
(* The engine a request is served by (handle_incoming_message).  Engine    *)
(* names are strings; strip() and lower() are given by a table over the    *)
(* names that occur.                                                       *)
(***************************************************************************)
EngineNames == {"duckdb", "in_memory"}

\* name.strip().lower()
StripLower(name) ==
    CASE name = " DuckDB " -> "duckdb"
      [] name = "IN_MEMORY" -> "in_memory"
      [] name = "Postgis" -> "postgis"
      [] OTHER -> name

\* _normalize_engine: (name or "in_memory").strip().lower(), then the two known names
NormalizeEngine(name) ==
    LET n == StripLower(IF name = None \/ name = "" THEN "in_memory" ELSE name)
    IN  IF n \in EngineNames THEN n ELSE "in_memory"

\* _default_engine_name: computed from the environment on its first call, then memoized
DefaultEngineName == IF defaultEngine = NotCached THEN NormalizeEngine(pangeEngine) ELSE defaultEngine

\* (scenario.dataSize or "small").lower() == "large"
IsLarge(dataSize) == dataSize \in {"large", "Large"}

\* the engine_name handle_incoming_message passes to _engine
EngineNameFor(hint, dataSize) ==
    IF IsLarge(dataSize) THEN "duckdb"
    ELSE IF hint = None THEN DefaultEngineName
    ELSE NormalizeEngine(hint)

\* _engine(name): DuckDBEngine for "duckdb", InMemoryEngine for every other name
EngineOf(name) == IF name = "duckdb" THEN "DuckDBEngine" ELSE "InMemoryEngine"

EngineHints == {None, "duckdb", "in_memory", " DuckDB ", "IN_MEMORY", "postgis", "Postgis", ""}
PangeEngineValues == {None, "duckdb", "in_memory", " DuckDB ", "postgis"}
DataSizes == {"small", "large", "Large", "medium"}

\* one request: thread.engine = hint, scenario.dataSize = dataSize
SelectEngine(hint, dataSize) ==
    /\ engSel' = [made |-> TRUE, hint |-> hint, dataSize |-> dataSize,
                  engine_name |-> EngineNameFor(hint, dataSize),
                  engine |-> EngineOf(EngineNameFor(hint, dataSize))]
    /\ defaultEngine' = IF hint = None THEN DefaultEngineName ELSE defaultEngine
    /\ UNCHANGED pangeEngine

\* the process may be started with any value of PANGE_ENGINE
InitSelAnyEnv ==
    /\ InitCacheVars /\ InitStream /\ InitLodCache /\ InitTiled /\ InitEngine /\ InitLod
    /\ InitAgent
    /\ pangeEngine \in PangeEngineValues
    /\ InitSelState /\ InitPin /\ InitSeeding /\ InitCap /\ InitGp

NextSel == \E hint \in EngineHints, dataSize \in DataSizes : SelectEngine(hint, dataSize) /\ UNCHANGED nonSelVars

SpecSel == InitSelAnyEnv /\ [][NextSel]_vars

\* the engine PANGE_ENGINE configures; in_memory when it is unset
ConfiguredDefault == NormalizeEngine(pangeEngine)

(***************************************************************************)
(* C21: a request on a scenario whose dataSize is large is served by       *)
(* duckdb whatever the client's hint; otherwise a recognised hint          *)
(* (in_memory or duckdb, in any case and padding) is honoured, and a       *)
(* missing hint and an unknown engine name both select the configured      *)
(* default engine.                                                         *)
(***************************************************************************)
C21_EngineSelection ==
    engSel.made =>
        IF IsLarge(engSel.dataSize) THEN engSel.engine_name = "duckdb"
        ELSE IF engSel.hint # None /\ StripLower(engSel.hint) \in EngineNames
             THEN engSel.engine_name = StripLower(engSel.hint)
        ELSE engSel.engine_name = ConfiguredDefault

\* the plot's stats block reports fewer highlight features rendered than matched
Clipped == stats.req > 0 /\ stats.rend < stats.req

\* the positions of the events of one origin
PositionsOf(src) == {i \in 1..Len(events) : events[i].src = src}

NoteEvents == SelectSeq(events, LAMBDA e : e.src = "note")

C22_WitnessUnclipped ==
    /\ hpc = "done"
    /\ raised = "none"
    /\ stats = [req |-> 2, rend |-> 2]
    /\ NoteEvents = <<>>

(***************************************************************************)
(* A request whose AgentResponse carries highlight overlays, from the      *)
(* router's response to the LOD step (handle_incoming_message).  Overlays  *)
(* are [layer, ids] over the layers of the LOD model.                      *)
(***************************************************************************)
\* the responses route_prompt builds: no highlight; highlight = hl and
\* highlights = [hl] (a highlight rule, a recommendation); highlight =
\* flooded_h and highlights = [flooded_h, roads_h] (escape roads)
OverlayResponses ==
    { [highlight |-> NoHighlight, highlights |-> <<>>] }
    \cup { [highlight |-> hl, highlights |-> <<hl>>] :
                hl \in {[layer |-> "roads", ids |-> {1}], [layer |-> "pubs", ids |-> {3}]} }
    \cup { [highlight |-> [layer |-> "pubs", ids |-> {3}],
            highlights |-> <<[layer |-> "pubs", ids |-> {3}], [layer |-> "roads", ids |-> ids]>>] :
                ids \in {{1}, {2}, {1, 2}, {3}} }

\* highlight_key of _apply_lod_cached: (highlight_layer_id or "", sorted ids)
HighlightKey(hl) == IF hl.layer = "none" THEN <<"", {}>> ELSE <<hl.layer, hl.ids>>

\* handle_incoming_message: _apply_lod_cached is given response.highlight
ServeOverlays(resp, layers, zoom, b) ==
    /\ ~overlayReq.made
    /\ overlayReq' = [made |-> TRUE, resp |-> resp, layers |-> layers, zoom |-> zoom, b |-> b,
                      keep |-> resp.highlight,
                      highlight_key |-> HighlightKey(resp.highlight),
                      out |-> ApplyLodTo(layers, zoom, resp.highlight, ClusterPointsLayerId, b)]

NextPin ==
    \E resp \in OverlayResponses, layers \in LodBundles, zoom \in LodViewZooms,
       b \in {TightBudgets, LooseBudgets} :
        ServeOverlays(resp, layers, zoom, b) /\ UNCHANGED nonPinVars

SpecPin == Init /\ [][NextPin]_vars

OverlaysOf(resp) == {resp.highlights[i] : i \in 1..Len(resp.highlights)}

(***************************************************************************)
(* C23: every overlay of the response (each element of                     *)
(* response.highlights) is pinned across LOD: its layer id and feature ids *)
(* are part of the LOD cache key and are the keep-set of its layer, so     *)
(* where LOD dropped an overlay feature of a layer it kept no              *)
(* non-highlighted feature of that layer.                                  *)
(***************************************************************************)
C23_EveryOverlayPinned ==
    overlayReq.made =>
        \A hl \in OverlaysOf(overlayReq.resp) :
            LET before == FeatureIds(GetLayer(overlayReq.layers, hl.layer).features)
                after == FeatureIds(GetLayer(overlayReq.out.layers, hl.layer).features)
            IN  /\ HighlightKey(hl) \in {overlayReq.highlight_key}
                /\ (hl.ids \cap before) \ after # {} => after \subseteq hl.ids

\* the layer the rule names is not in the bundle
RuleLayerAbsent(layers, rule) == BundleGet(layers, rule.layerId).kind = "none"

\* the rule names a mask layer and that layer is not in the bundle
RuleMaskAbsent(layers, rule) ==
    rule.maskLayerId # "" /\ BundleGet(layers, rule.maskLayerId).kind = "none"

(***************************************************************************)
(* C24: a highlight rule whose layerId is absent from the bundle, or whose *)
(* maskLayerId is absent from the bundle (maskMode IN_MASK or              *)
(* OUTSIDE_MASK), returns a response with a message and no highlight; it   *)
(* never highlights features as if the mask had been applied.              *)
(***************************************************************************)
C24_AbsentLayerGivesMessageOnly ==
    (agentIn.made /\ agentIn.route = "rule"
        /\ (RuleLayerAbsent(agentIn.layers, agentIn.rule)
                \/ RuleMaskAbsent(agentIn.layers, agentIn.rule))) =>
        /\ agentOut.made
        /\ ~agentOut.highlight.some
        /\ agentOut.highlights = <<>>

(***************************************************************************)
(* Concurrent DuckDBEngine.get calls for one seeded scenario and one       *)
(* database file.  Each step is one call or statement of get,              *)
(* _seeded_base and ensure_initialized.  functools.lru_cache runs the      *)
(* wrapped function outside any lock: callers that miss together each      *)
(* build a _SeededBase and each returns the one it built; the first to     *)
(* finish is the one stored.                                               *)
(***************************************************************************)
MaxGets == 2

SeedTables == <<"points", "lines", "polygons">>

InitStepTo(t, pc) == initThr' = [initThr EXCEPT ![t].pc = pc]

\* base = _seeded_base(path, scenario_id): the memo is looked up
SeededBaseLookup(t) ==
    /\ initThr[t].pc = "idle"
    /\ initThr[t].gets < MaxGets
    /\ initThr' = [initThr EXCEPT ![t].pc = IF baseMemo = NoBase THEN "build" ELSE "check",
                                  ![t].base = baseMemo]
    /\ UNCHANGED <<baseMemo, baseObj, seedFile>>

\* a miss: the body of _seeded_base has built a _SeededBase; it is stored
\* unless the key was stored meanwhile, and it is what this caller gets
SeededBaseBuilt(t) ==
    /\ initThr[t].pc = "build"
    /\ baseObj' = [baseObj EXCEPT ![t].built = TRUE]
    /\ baseMemo' = IF baseMemo = NoBase THEN t ELSE baseMemo
    /\ initThr' = [initThr EXCEPT ![t].pc = "check", ![t].base = t]
    /\ UNCHANGED seedFile

\* ensure_initialized: if self._initialized: return
FirstCheck(t) ==
    /\ initThr[t].pc = "check"
    /\ InitStepTo(t, IF baseObj[initThr[t].base].initialized THEN "query" ELSE "lock")
    /\ UNCHANGED <<baseMemo, baseObj, seedFile>>

\* with self._init_lock (an RLock no other thread holds)
AcquireInitLock(t) ==
    /\ initThr[t].pc = "lock"
    /\ baseObj[initThr[t].base].lock = 0
    /\ baseObj' = [baseObj EXCEPT ![initThr[t].base].lock = t]
    /\ InitStepTo(t, "recheck")
    /\ UNCHANGED <<baseMemo, seedFile>>

\* under the lock: if self._initialized: return (the lock is released)
SecondCheck(t) ==
    /\ initThr[t].pc = "recheck"
    /\ IF baseObj[initThr[t].base].initialized
       THEN /\ baseObj' = [baseObj EXCEPT ![initThr[t].base].lock = 0]
            /\ InitStepTo(t, "query")
       ELSE /\ InitStepTo(t, "schema")
            /\ UNCHANGED baseObj
    /\ UNCHANGED <<baseMemo, seedFile>>

\* _init_schema(conn): CREATE TABLE IF NOT EXISTS, three times
InitSchema(t) ==
    /\ initThr[t].pc = "schema"
    /\ seedFile' = [seedFile EXCEPT !.schemaRuns = @ + 1]
    /\ initThr' = [initThr EXCEPT ![t].pc = "seed", ![t].table = 1]
    /\ UNCHANGED <<baseMemo, baseObj>>

\* _seed_all_layers(conn, layers), one table at a time: rows are inserted
\* when the table is empty (INSERT OR IGNORE)
SeedTable(t) ==
    /\ initThr[t].pc = "seed"
    /\ seedFile' = [seedFile EXCEPT
                        !.seedRuns = IF initThr[t].table = 1 THEN @ + 1 ELSE @,
                        !.filled = @ \cup {SeedTables[initThr[t].table]}]
    /\ initThr' = [initThr EXCEPT
                        ![t].pc = IF initThr[t].table = Len(SeedTables) THEN "flag" ELSE "seed",
                        ![t].table = IF initThr[t].table = Len(SeedTables) THEN 0 ELSE @ + 1]
    /\ UNCHANGED <<baseMemo, baseObj>>

\* self._initialized = True, then the with block releases the lock
SetInitialized(t) ==
    /\ initThr[t].pc = "flag"
    /\ baseObj' = [baseObj EXCEPT ![initThr[t].base].initialized = TRUE,
                                  ![initThr[t].base].lock = 0]
    /\ InitStepTo(t, "query")
    /\ UNCHANGED <<baseMemo, seedFile>>

\* base.slice_layers_tiled(...): the tables are queried, get returns
QueryTables(t) ==
    /\ initThr[t].pc = "query"
    /\ initThr' = [initThr EXCEPT ![t].pc = "idle", ![t].gets = @ + 1]
    /\ UNCHANGED <<baseMemo, baseObj, seedFile>>

NextSeeding ==
    \/ \E t \in InitThreads : SeededBaseLookup(t) /\ UNCHANGED nonInitVars
    \/ \E t \in InitThreads : SeededBaseBuilt(t) /\ UNCHANGED nonInitVars
    \/ \E t \in InitThreads : FirstCheck(t) /\ UNCHANGED nonInitVars
    \/ \E t \in InitThreads : AcquireInitLock(t) /\ UNCHANGED nonInitVars
    \/ \E t \in InitThreads : SecondCheck(t) /\ UNCHANGED nonInitVars
    \/ \E t \in InitThreads : InitSchema(t) /\ UNCHANGED nonInitVars
    \/ \E t \in InitThreads : SeedTable(t) /\ UNCHANGED nonInitVars
    \/ \E t \in InitThreads : SetInitialized(t) /\ UNCHANGED nonInitVars
    \/ \E t \in InitThreads : QueryTables(t) /\ UNCHANGED nonInitVars

SpecSeeding == Init /\ [][NextSeeding]_vars

SeedingCompleted == seedFile.filled = Range(SeedTables)

(***************************************************************************)
(* C25: in every interleaving of concurrent DuckDBEngine.get calls for one *)
(* seeded scenario and database file, schema creation and seeding each run *)
(* at most once, and no caller is past ensure_initialized (querying the    *)
(* tables) before seeding has completed; later calls leave the file as it  *)
(* is.                                                                     *)
(***************************************************************************)
C25_SeedingOneShot ==
    /\ seedFile.schemaRuns <= 1
    /\ seedFile.seedRuns <= 1
    /\ \A t \in InitThreads : initThr[t].pc = "query" => SeedingCompleted
    /\ \A t \in InitThreads : initThr[t].gets > 0 => SeedingCompleted

(***************************************************************************)
(* The candidate limit of a GeoParquet line or polygon layer               *)
(* (query_geoparquet_layer_bbox).  Zooms are in units of 1/ZoomUnit; an    *)
(* optional int is [set, v].                                               *)
(***************************************************************************)
HardCapLines == 9000
HardCapPolygons == 5000
DefaultGeomMinZoom == 11 * ZoomUnit

Some(v) == [set |-> TRUE, v |-> v]
Unset == [set |-> FALSE, v |-> 0]

\* safety_limit, for lines and polygons
SafetyLimit(kind, zoom) ==
    IF 2 * zoom <= 15 * ZoomUnit THEN (IF kind = "lines" THEN 20000 ELSE 10000)
    ELSE IF zoom <= 9 * ZoomUnit THEN (IF kind = "lines" THEN 60000 ELSE 30000)
    ELSE (IF kind = "lines" THEN 200000 ELSE 100000)

\* items.sort(key=lambda t: t[0]) on entries [maxZoom, value]
RECURSIVE SortByMaxZoom(_)
SortByMaxZoom(items) ==
    IF items = <<>> THEN <<>>
    ELSE LET i == CHOOSE i \in 1..Len(items) : \A j \in 1..Len(items) :
                      items[i].maxZoom < items[j].maxZoom
                        \/ (items[i].maxZoom = items[j].maxZoom /\ i <= j)
         IN  <<items[i]>> \o SortByMaxZoom(RemoveAt(items, i))

NoMapping == <<[maxZoom |-> -1, value |-> 0, int |-> FALSE]>>

\* choose_by_max_zoom(mapping, zoom, default=None): entries whose key or
\* value is not a number are skipped
ChooseByMaxZoom(mapping, zoom) ==
    LET items == SortByMaxZoom(SelectSeq(mapping, LAMBDA e : e.int))
        fits == SelectSeq(items, LAMBDA e : zoom <= e.maxZoom)
    IN  IF mapping = NoMapping \/ items = <<>> THEN Unset
        ELSE IF fits # <<>> THEN Some(fits[1].value)
        ELSE Some(items[Len(items)].value)

\* hard_cap by kind
HardCap(kind) == IF kind = "lines" THEN HardCapLines ELSE HardCapPolygons

\* cand_limit: the safety limit, then the policy cap, then the hard cap,
\* each step floored at 1
CandLimit(safety, maxCandidates, hardCap) ==
    LET afterPolicy == IF maxCandidates.set THEN Max(1, Min(safety, maxCandidates.v))
                       ELSE safety
    IN  Max(1, Min(afterPolicy, hardCap))

\* capped_by; "max_candidates_int or safety" reads 0 as unset
CappedBy(safety, maxCandidates, hardCap) ==
    (IF maxCandidates.set /\ maxCandidates.v < safety
     THEN <<"policyMaxCandidates">> ELSE <<>>)
    \o (IF hardCap < Min(safety, IF maxCandidates.set /\ maxCandidates.v # 0
                                 THEN maxCandidates.v ELSE safety)
        THEN <<"hardCap">> ELSE <<>>)

\* cap_meta
CapMeta(kind, zoom, mapping) ==
    LET safety == SafetyLimit(kind, zoom)
        maxCandidates == ChooseByMaxZoom(mapping, zoom)
    IN  [safetyLimit |-> safety, policyMaxCandidates |-> maxCandidates,
         hardCap |-> HardCap(kind),
         effectiveLimit |-> CandLimit(safety, maxCandidates, HardCap(kind)),
         cappedBy |-> CappedBy(safety, maxCandidates, HardCap(kind))]

Entry(maxZoom, value) == [maxZoom |-> maxZoom, value |-> value, int |-> TRUE]

\* renderPolicy.maxCandidatesByZoom of the layer
CandidateMappings ==
    { NoMapping,
      <<Entry(60, 3000), Entry(72, 8000), Entry(160, 40000)>>,
      <<Entry(160, 40000), Entry(60, 3000), [maxZoom |-> 72, value |-> 0, int |-> FALSE]>>,
      <<Entry(160, 12000)>>, <<Entry(160, 9000)>>, <<Entry(160, 5000)>>,
      <<Entry(72, 250000)>>, <<Entry(160, 7000)>>, <<Entry(160, 0)>> }

CapZooms == {48, 60, 61, 72, 73, 96, 112}

\* one call for a line or polygon layer; below minZoomForGeometry with no
\* class allowed by the policy it returns an empty layer and no cap block
QueryGeoparquetLayerBBox(kind, zoom, mapping, geomMinZoom, allow) ==
    /\ capCall' = [made |-> TRUE, kind |-> kind, zoom |-> zoom, mapping |-> mapping,
                   skipped |-> zoom < geomMinZoom /\ ~allow,
                   cap |-> CapMeta(kind, zoom, mapping)]

NextCap ==
    \E kind \in {"lines", "polygons"}, zoom \in CapZooms, mapping \in CandidateMappings,
       geomMinZoom \in {5 * ZoomUnit, DefaultGeomMinZoom}, allow \in BOOLEAN :
        QueryGeoparquetLayerBBox(kind, zoom, mapping, geomMinZoom, allow) /\ UNCHANGED nonCapVars

SpecCap == Init /\ [][NextCap]_vars

\* the caps of a call with their values: safety always, the others when set
CapValues(cap) ==
    {[name |-> "hardCap", v |-> cap.hardCap]}
    \cup (IF cap.policyMaxCandidates.set
          THEN {[name |-> "policyMaxCandidates", v |-> cap.policyMaxCandidates.v]} ELSE {})

(***************************************************************************)
(* C26: for a line or polygon layer, at every zoom and for every policy    *)
(* max-candidates value, the effective candidate limit is the minimum of   *)
(* the safety limit, policyMaxCandidates when set, and the hard cap (9000  *)
(* for lines, 5000 for polygons); cappedBy names exactly the caps that     *)
(* bind: those whose value equals the effective limit and is below the     *)
(* safety limit.                                                           *)
(***************************************************************************)
C26_EffectiveLimitAndCappedBy ==
    (capCall.made /\ ~capCall.skipped) =>
        LET cap == capCall.cap
        IN  /\ cap.effectiveLimit =
                    SetMin({cap.safetyLimit} \cup {c.v : c \in CapValues(cap)})
            /\ Range(cap.cappedBy) =
                    {c.name : c \in {c \in CapValues(cap) :
                                        c.v = cap.effectiveLimit /\ c.v < cap.safetyLimit}}

(***************************************************************************)
(* The GeoParquet bundle of a request (_geoparquet_bundle_cached behind    *)
(* query_geoparquet_layers_cached).  One worker future per GeoParquet      *)
(* layer; the futures finish in any order and the request thread takes     *)
(* them in the order they finished (as_completed).  Which layer queries    *)
(* raise is chosen per request: a failure is transient.                    *)
(***************************************************************************)
MaxGpRequests == 2
GpMemoMax == 2

\* scenario.layers
GpScenarioLayers ==
    << [id |-> "roads", kind |-> "lines", source |-> "geoparquet"],
       [id |-> "flood", kind |-> "polygons", source |-> "geojson"],
       [id |-> "places", kind |-> "points", source |-> "geoparquet"],
       [id |-> "water", kind |-> "polygons", source |-> "geoparquet"] >>

\* gp_indexes
GpIndexes == {i \in 1..Len(GpScenarioLayers) : GpScenarioLayers[i].source = "geoparquet"}

GpZooms == {96, 97, 100}

\* aoi_key and zoom_bucket of query_geoparquet_layers_cached
GpKey(aoi, zoom) == <<"scenario", aoi, ZoomBucket(zoom)>>

\* out_layers before any future is taken: every layer of the scenario, empty
EmptyOutLayers ==
    [i \in 1..Len(GpScenarioLayers) |->
        [id |-> GpScenarioLayers[i].id, kind |-> GpScenarioLayers[i].kind, features |-> <<>>]]

\* layer_stats before any future is taken
InitialLayerStats ==
    [i \in 1..Len(GpScenarioLayers) |->
        [layerId |-> GpScenarioLayers[i].id, source |-> GpScenarioLayers[i].source,
         n |-> 0, skippedReason |-> ""]]

\* what _query_one(i) returns when the query does not raise: the layer of
\* that id with the rows of its own file, and its stats
QueryOne(i, key) ==
    [idx |-> i,
     layer |-> [id |-> GpScenarioLayers[i].id, kind |-> GpScenarioLayers[i].kind,
                features |-> <<[id |-> 1, from |-> GpScenarioLayers[i].id, at |-> key[3]]>>],
     stats |-> [layerId |-> GpScenarioLayers[i].id, source |-> "geoparquet",
                n |-> 1, skippedReason |-> ""]]

\* the stats entry written when fut.result() raises
ErrorStats(i) ==
    [layerId |-> GpScenarioLayers[i].id, source |-> "geoparquet", n |-> 0,
     skippedReason |-> "error"]

\* query_geoparquet_layers_cached: a memo hit is returned at once (and
\* becomes the most recently used entry); on a miss the body starts and
\* submits one future per GeoParquet layer
GpRequest(aoi, zoom, fails) ==
    /\ gpReq.pc = "idle"
    /\ nGpReq < MaxGpRequests
    /\ nGpReq' = nGpReq + 1
    /\ LET key == GpKey(aoi, zoom)
       IN  IF DictHas(gpMemo, key)
           THEN /\ gpServed' = [made |-> TRUE, key |-> key, hit |-> TRUE, fails |-> fails,
                                queried |-> {}, order |-> <<>>,
                                layers |-> EntryOf(gpMemo, key).v.layers,
                                stats |-> EntryOf(gpMemo, key).v.stats]
                /\ gpMemo' = Append(DictPop(gpMemo, key), EntryOf(gpMemo, key))
                /\ UNCHANGED gpReq
           ELSE /\ gpReq' = [pc |-> "pool", key |-> key, fails |-> fails,
                             running |-> GpIndexes, finished |-> <<>>, taken |-> 0,
                             out_layers |-> EmptyOutLayers, layer_stats |-> InitialLayerStats]
                /\ UNCHANGED <<gpMemo, gpServed>>

\* a worker's _query_one(i) ends, returning or raising
WorkerFinishes(i) ==
    /\ gpReq.pc = "pool"
    /\ i \in gpReq.running
    /\ gpReq' = [gpReq EXCEPT !.running = @ \ {i}, !.finished = Append(@, i)]
    /\ UNCHANGED <<gpMemo, gpServed, nGpReq>>

\* a plausible slip: results are stored in the order the futures finished
TakeFutureByArrival ==
    /\ gpReq.pc = "pool"
    /\ gpReq.taken < Len(gpReq.finished)
    /\ LET i == gpReq.finished[gpReq.taken + 1]
           slot == gpReq.taken + 1
       IN  gpReq' = IF i \in gpReq.fails
                    THEN [gpReq EXCEPT !.taken = @ + 1, !.layer_stats[i] = ErrorStats(i)]
                    ELSE [gpReq EXCEPT !.taken = @ + 1,
                                       !.out_layers[slot] = QueryOne(i, gpReq.key).layer,
                                       !.layer_stats[slot] = QueryOne(i, gpReq.key).stats]
    /\ UNCHANGED <<gpMemo, gpServed, nGpReq>>

\* for fut in as_completed(futures): the result goes to its own index, an
\* exception leaves the layer empty and marks its stats
TakeFuture ==
    /\ gpReq.pc = "pool"
    /\ gpReq.taken < Len(gpReq.finished)
    /\ LET i == gpReq.finished[gpReq.taken + 1]
           r == QueryOne(i, gpReq.key)
       IN  gpReq' = IF i \in gpReq.fails
                    THEN [gpReq EXCEPT !.taken = @ + 1, !.layer_stats[i] = ErrorStats(i)]
                    ELSE [gpReq EXCEPT !.taken = @ + 1,
                                       !.out_layers[r.idx] = r.layer,
                                       !.layer_stats[r.idx] = r.stats]
    /\ UNCHANGED <<gpMemo, gpServed, nGpReq>>

\* every future taken: the bundle and its stats are returned, and memoized
\* by lru_cache under the call's key (least recently used entry out when full)
ReturnBundle ==
    /\ gpReq.pc = "pool"
    /\ gpReq.running = {}
    /\ gpReq.taken = Len(gpReq.finished)
    /\ gpMemo' = BoundedCachePut(gpMemo, gpReq.key,
                                 [layers |-> gpReq.out_layers, stats |-> gpReq.layer_stats],
                                 GpMemoMax)
    /\ gpServed' = [made |-> TRUE, key |-> gpReq.key, hit |-> FALSE, fails |-> gpReq.fails,
                    queried |-> GpIndexes, order |-> gpReq.finished,
                    layers |-> gpReq.out_layers, stats |-> gpReq.layer_stats]
    /\ gpReq' = GpIdle
    /\ UNCHANGED nGpReq

NextGp ==
    \/ \E aoi \in {"aoi"}, zoom \in GpZooms, fails \in SUBSET GpIndexes :
            GpRequest(aoi, zoom, fails) /\ UNCHANGED nonGpVars
    \/ \E i \in GpIndexes : WorkerFinishes(i) /\ UNCHANGED nonGpVars
    \/ TakeFuture /\ UNCHANGED nonGpVars
    \/ ReturnBundle /\ UNCHANGED nonGpVars

SpecGp == Init /\ [][NextGp]_vars

(***************************************************************************)
(* C27: whatever the order in which the worker futures finish and whatever *)
(* subset of the layer queries raises, the bundle is returned; position i  *)
(* holds the layer with id scenario.layers[i].id; a failed layer is empty  *)
(* and its stats entry carries a skippedReason; every other GeoParquet     *)
(* layer holds the result of its own query.                                *)
(***************************************************************************)
C27_FailuresIsolated ==
    /\ (gpReq.pc = "pool" /\ gpReq.running = {} /\ gpReq.taken = Len(gpReq.finished))
            => ENABLED ReturnBundle
    /\ (gpServed.made /\ ~gpServed.hit) =>
        /\ Len(gpServed.layers) = Len(GpScenarioLayers)
        /\ \A i \in 1..Len(GpScenarioLayers) :
            /\ gpServed.layers[i].id = GpScenarioLayers[i].id
            /\ gpServed.stats[i].layerId = GpScenarioLayers[i].id
            /\ i \in gpServed.fails \cap GpIndexes =>
                    /\ gpServed.layers[i].features = <<>>
                    /\ gpServed.stats[i].skippedReason # ""
            /\ i \in GpIndexes \ gpServed.fails =>
                    /\ gpServed.layers[i] = QueryOne(i, gpServed.key).layer
                    /\ gpServed.stats[i] = QueryOne(i, gpServed.key).stats
            /\ i \notin GpIndexes => gpServed.layers[i] = EmptyOutLayers[i]

\* a bundle returned after the futures finished out of index order, with one
\* layer failed and the others not
C27_Witness ==
    /\ gpServed.made
    /\ ~gpServed.hit
    /\ gpServed.order = <<4, 1, 3>>
    /\ gpServed.fails = {3}
    /\ gpServed.layers[3].features = <<>>
    /\ gpServed.layers[4].features # <<>>

(***************************************************************************)
(* C30: a transient failure of a layer query does not outlive the request  *)
(* that hit it: a later request with the same scenario, rounded AOI and    *)
(* zoom bucket runs that layer's query again; it is not served the         *)
(* memoized bundle in which the layer is empty with skippedReason error.   *)
(***************************************************************************)
C30_FailureNotMemoized ==
    (gpServed.made /\ gpServed.hit) =>
        \A i \in GpIndexes :
            gpServed.stats[i].skippedReason = "error" => i \in gpServed.queried

\* the grid cells that hold a point of the primary layer
CellsOf(points, grid) == {points[i].x \div grid : i \in 1..Len(points)}

PointsInCell(points, grid, c) ==
    Cardinality({i \in 1..Len(points) : points[i].x \div grid = c})

(***************************************************************************)
(* C28: when the primary point layer is clustered, one cluster is emitted  *)
(* per non-empty grid cell, with count the number of points in that cell,  *)
(* so the counts sum to the number of input points; the clusters are       *)
(* ordered by count descending.                                            *)
(***************************************************************************)
C28_OneClusterPerCell ==
    (lodOut.made /\ lodOut.clusters.on) =>
        LET points == GetLayer(lodIn.layers, ClusterPointsLayerId).features
            grid == GridSizeM(lodIn.zoom)
            markers == lodOut.clusters.markers
        IN  /\ Len(markers) = Cardinality(CellsOf(points, grid))
            /\ \A c \in CellsOf(points, grid) :
                    \E k \in 1..Len(markers) :
                        /\ markers[k].x \div grid = c
                        /\ markers[k].count = PointsInCell(points, grid, c)
            /\ SumCounts(markers) = Len(points)
            /\ \A k \in 1..(Len(markers) - 1) : markers[k].count >= markers[k + 1].count

\* the bundle the engine serves for a scenario
LodLayersOf(scen) ==
    IF scen = "prague" THEN <<ParksLayer, RoadsLayer, RailsLayer, PubsLayer, StopsLayer>>
    ELSE <<RoadsLayer, PubsLayer, ParksLayer>>

\* apply_lod is called without budgets and takes the defaults LodBudgets():
\* the bundle of prague stays within them, that of brno exceeds them
DefaultBudgetsFor(scen) == IF scen = "prague" THEN LooseBudgets ELSE TightBudgets

\* the highlight argument of a cached call as apply_lod reads it; the
\* feature "p1" is the pub with id 1
HighlightOf(hl) ==
    IF hl[1] = "" THEN NoHighlight ELSE [layer |-> hl[1], ids |-> {1}]

\* apply_lod(layers, view_zoom=view_zoom, highlight_layer_id=...,
\* highlight_feature_ids=..., cluster_points_layer_id=...) for
\* the arguments recorded in a cache value
ApplyLodOf(v) ==
    ApplyLodTo(LodLayersOf(v.layers[1]), v.zoom, HighlightOf(v.hl),
               ClusterPointsLayerId, DefaultBudgetsFor(v.layers[1]))

(***************************************************************************)
(* C29: a LOD cache hit is indistinguishable from a fresh computation:     *)
(* the bundle and the cluster decision served from the cache are those     *)
(* apply_lod yields for the request's own view zoom and layers, also when  *)
(* the entry was stored by a request with another view zoom of the same    *)
(* 0.5-wide bucket on the other side of the clustering threshold 9.5.      *)
(***************************************************************************)
C29_HitEqualsFresh ==
    (lodCall.made /\ lodCall.cacheHit) =>
        LET fromCache == ApplyLodOf(lodCall.value)
            fresh == ApplyLodOf(LodValue(lodCall.args))
        IN  /\ fromCache.layers = fresh.layers
            /\ fromCache.clusters.on = fresh.clusters.on
            /\ fromCache.clusters = fresh.clusters

AllIdle == \A t \in Threads : thr[t].pc = "idle"


(***************************************************************************)
(* C3: when several request threads run _bounded_cache_put on one cache in *)
(* any interleaving of its steps, the size of the cache is at most         *)
(* max_items once every put in flight has returned.                        *)
(***************************************************************************)
C3_BoundAfterConcurrentPuts == AllIdle => Len(cache) <= MaxItems

(***************************************************************************)
(* C4: for a single caller starting from an empty cache, after every put   *)
(* the size is at most max_items; a put of a new key into a full cache     *)
(* evicts exactly the oldest-inserted entry; a put of a present key and a  *)
(* lookup leave the order of the keys (so the next eviction) unchanged;    *)
(* the key just put is never the one evicted.                              *)
(***************************************************************************)
C4_OldestInsertionEviction ==
    /\ thr[1].pc = "idle" => Len(cache) <= MaxItems
    /\ lastOp.op = "put" =>
          /\ lastOp.key \in Range(lastOp.post)
          /\ thr[1].pc = "idle" => lastOp.post = DictKeys(cache)
          /\ IF lastOp.key \in Range(lastOp.pre) THEN lastOp.post = lastOp.pre
             ELSE IF Len(lastOp.pre) < MaxItems THEN lastOp.post = Append(lastOp.pre, lastOp.key)
             ELSE lastOp.post = Append(Tail(lastOp.pre), lastOp.key)
    /\ lastOp.op \in {"hit", "miss"} => lastOp.post = lastOp.pre /\ (thr[1].pc = "idle" => DictKeys(cache) = lastOp.pre)

\* a new key was put into a full cache and the oldest entry went
C4_Witness ==
    /\ lastOp.op = "put"
    /\ Len(lastOp.pre) = MaxItems
    /\ lastOp.key \notin Range(lastOp.pre)
    /\ thr[1].pc = "idle"
    /\ nOps = MaxOps

====
